---- MODULE Spec2Model ----
(***************************************************************************)
(* A model of the package-scoring engine: the five metric classes          *)
(* (BusFactor, Correctness, Maintainability, RampUp, License), each an     *)
(* asynchronous evaluate() over the hosting API or a checkout, and         *)
(* NetScore, which runs the five concurrently and combines their fields.   *)
(*                                                                         *)
(* Every evaluate() is modelled await by await: one action per             *)
(* continuation, so the interleavings of the five tasks on the single      *)
(* JavaScript thread are the interleavings of the actions.                 *)
(***************************************************************************)
EXTENDS Integers, Sequences, FiniteSets, TLC

(***************************************************************************)
(* JavaScript numbers.  The metrics only add, subtract, multiply and       *)
(* divide small integers, so a number is an exact fraction [n, d] in       *)
(* lowest terms with d > 0; the division 0/0 gives NaN and x/0 gives an    *)
(* infinity, as IEEE division does.                                        *)
(***************************************************************************)
NaN == [n |-> 0, d |-> 0]

PosInfinity == [n |-> 1, d |-> 0]

NegInfinity == [n |-> -1, d |-> 0]

Abs(x) == IF x < 0 THEN -x ELSE x

RECURSIVE GCD(_, _)
GCD(a, b) == IF b = 0 THEN a ELSE GCD(b, a % b)

\* The number num/den, for integers num and den.
Div(num, den) ==
    IF den = 0
    THEN IF num = 0 THEN NaN ELSE IF num > 0 THEN PosInfinity ELSE NegInfinity
    ELSE LET g == GCD(Abs(num), Abs(den))
             s == IF den < 0 THEN -1 ELSE 1
         IN  [n |-> (s * num) \div g, d |-> (s * den) \div g]

Num(i) == [n |-> i, d |-> 1]

IsNaN(x) == x = NaN

IsFinite(x) == x.d > 0

\* x * y for a number x and an integer factor y > 0.
Times(x, y) == IF IsFinite(x) THEN Div(x.n * y, x.d) ELSE x

\* x / y for a finite number x and an integer y > 0.
Over(x, y) == IF IsFinite(x) THEN Div(x.n, x.d * y) ELSE x

\* 1 - x.
OneMinus(x) == IF IsFinite(x) THEN Div(x.d - x.n, x.d) ELSE
               IF x = PosInfinity THEN NegInfinity ELSE
               IF x = NegInfinity THEN PosInfinity ELSE NaN

\* x < y; every comparison with NaN is false.
Less(x, y) ==
    IF IsNaN(x) \/ IsNaN(y) THEN FALSE
    ELSE IF IsFinite(x) /\ IsFinite(y) THEN x.n * y.d < y.n * x.d
    ELSE IF x = y THEN FALSE
    ELSE x = NegInfinity \/ y = PosInfinity

\* Math.min(x, y): NaN when either argument is NaN.
MathMin(x, y) ==
    IF IsNaN(x) \/ IsNaN(y) THEN NaN ELSE IF Less(y, x) THEN y ELSE x

\* The closed interval [0, 1].
InUnitInterval(x) == IsFinite(x) /\ 0 <= x.n /\ x.n <= x.d

DecimalDigits == <<"0", "1", "2", "3", "4", "5", "6", "7", "8", "9">>

\* The decimal digits of an integer n >= 0.
RECURSIVE DigitsOf(_)
DigitsOf(n) ==
    IF n < 10 THEN <<DecimalDigits[n + 1]>>
    ELSE DigitsOf(n \div 10) \o <<DecimalDigits[(n % 10) + 1]>>

\* 10 ^ k
RECURSIVE PowerOfTen(_)
PowerOfTen(k) == IF k = 0 THEN 1 ELSE 10 * PowerOfTen(k - 1)

\* The digits of n >= 0, padded with zeros on the left to k digits.
RECURSIVE PadStart(_, _)
PadStart(digits, k) == IF Len(digits) >= k THEN digits ELSE PadStart(<<"0">> \o digits, k)

\* Number.prototype.toFixed(fractionDigits): NaN and the infinities print as
\* their names; a finite number prints its sign, its integer part and
\* fractionDigits decimals, rounded to the nearest, halves away from zero.
toFixed(x, fractionDigits) ==
    IF IsNaN(x) THEN <<"N", "a", "N">>
    ELSE IF x = PosInfinity THEN <<"I", "n", "f", "i", "n", "i", "t", "y">>
    ELSE IF x = NegInfinity THEN <<"-", "I", "n", "f", "i", "n", "i", "t", "y">>
    ELSE LET scale == PowerOfTen(fractionDigits)
             a == Abs(x.n)
             rounded == ((a % x.d) * 2 * scale + x.d) \div (2 * x.d)
             whole == (a \div x.d) + (rounded \div scale)
             sign == IF x.n < 0 THEN <<"-">> ELSE <<>>
         IN  sign \o DigitsOf(whole) \o <<".">>
                  \o PadStart(DigitsOf(rounded % scale), fractionDigits)

\* The sentinel a metric returns when it could not be computed.
Sentinel == Num(-1)

(***************************************************************************)
(* Bounds of the model.                                                    *)
(***************************************************************************)
\* Commit counts 1..MaxCount per author (besides the counts of SampleCounts).
MaxCount == 2

\* The remaining API quota at the start is 0..MaxQuota.
MaxQuota == 3

\* At most MaxFaults requests or clones fail in one run for a reason other
\* than the quota.
MaxFaults == 1

(***************************************************************************)
(* The upstream repository, as the hosting API serves it.                  *)
(*                                                                         *)
(* commits: the commit list in pages; a page is a sequence of runs, a run  *)
(* [author, n] standing for n consecutive commits with that author login   *)
(* (NoLogin: commits whose author has no login).                           *)
(***************************************************************************)
Authors == {"alice", "bob", "carol"}

NoLogin == "null"

\* per_page of listCommits
PerPage == 100

\* the loop of getCommitData runs while page < PageCap
PageCap == 10

RECURSIVE SumRuns(_)
SumRuns(runs) ==
    IF runs = <<>> THEN 0 ELSE Head(runs).n + SumRuns(Tail(runs))

\* commits.length of a page
PageLength(commits) == SumRuns(commits)

\* The page listCommits returns for `page`: past the last page, an empty one.
ListCommitsPage(commits, p) == IF p <= Len(commits) THEN commits[p] ELSE <<>>

(***************************************************************************)
(* BusFactor                                                               *)
(***************************************************************************)
\* commitCounts.get(author) || 0, the Map kept as its entries in insertion order
MapGet(commitCounts, author) ==
    LET hits == {i \in 1..Len(commitCounts) : commitCounts[i].author = author}
    IN  IF hits = {} THEN 0 ELSE commitCounts[CHOOSE i \in hits : TRUE].count

\* commitCounts.set(author, count)
MapSet(commitCounts, author, count) ==
    LET hits == {i \in 1..Len(commitCounts) : commitCounts[i].author = author}
    IN  IF hits = {}
        THEN Append(commitCounts, [author |-> author, count |-> count])
        ELSE [i \in 1..Len(commitCounts) |->
                 IF i \in hits THEN [author |-> author, count |-> count]
                 ELSE commitCounts[i]]

\* A count that files the commits without an author login under "null".
RECURSIVE CountCommits_CountsAnonymous(_, _)
CountCommits_CountsAnonymous(commitCounts, commits) ==
    IF commits = <<>> THEN commitCounts
    ELSE LET run == Head(commits)
         IN  CountCommits_CountsAnonymous(
                 MapSet(commitCounts, run.author, MapGet(commitCounts, run.author) + run.n),
                 Tail(commits))

\* commits.forEach(...) of getCommitData: each commit with an author login adds 1.
RECURSIVE CountCommits(_, _)
CountCommits(commitCounts, commits) ==
    IF commits = <<>> THEN commitCounts
    ELSE LET run == Head(commits)
         IN  CountCommits(
                 IF run.author # NoLogin
                 THEN MapSet(commitCounts, run.author,
                             MapGet(commitCounts, run.author) + run.n)
                 ELSE commitCounts,
                 Tail(commits))

\* Array.from(commitData.values()).reduce((a, b) => a + b, 0)
RECURSIVE TotalCommits(_)
TotalCommits(commitData) ==
    IF commitData = <<>> THEN 0
    ELSE Head(commitData).count + TotalCommits(Tail(commitData))

\* Array.prototype.sort((a, b) => b[1] - a[1]): stable, descending by count.
RECURSIVE SortedContributors(_)
SortedContributors(commitData) ==
    IF commitData = <<>> THEN <<>>
    ELSE LET front == SortedContributors(SubSeq(commitData, 1, Len(commitData) - 1))
             e == commitData[Len(commitData)]
             k == Cardinality({j \in 1..Len(front) : front[j].count >= e.count})
         IN  SubSeq(front, 1, k) \o <<e>> \o SubSeq(front, k + 1, Len(front))

\* A loop condition that also goes on at exactly 85%.
BelowThreshold_Inclusive(commitSum, totalCommits) == commitSum * 20 <= totalCommits * 17

\* The loop condition commitSum < totalCommits * 0.85.  For integers up to
\* PageCap * PerPage the double product compares as the exact 17/20 does.
BelowThreshold(commitSum, totalCommits) == commitSum * 20 < totalCommits * 17

\* The exception of reading a property of undefined.
TypeError == [error |-> "TypeError"]

\* The accumulation loop: i as the code counts it (0-based), or TypeError:
\* sortedContributors[i] past the end is undefined, and [1] of it throws.
RECURSIVE Accumulate(_, _, _, _)
Accumulate(sortedContributors, totalCommits, commitSum, i) ==
    IF BelowThreshold(commitSum, totalCommits)
    THEN IF i >= Len(sortedContributors) THEN TypeError
         ELSE Accumulate(sortedContributors, totalCommits,
                         commitSum + sortedContributors[i + 1].count, i + 1)
    ELSE [i |-> i]

calculateBusFactor(commitData) ==
    LET totalCommits == TotalCommits(commitData)
        sortedContributors == SortedContributors(commitData)
        loop == Accumulate(sortedContributors, totalCommits, 0, 0)
        i == loop.i
    IN  IF loop = TypeError THEN TypeError
        ELSE LET rawBusFactor == Div(i, Len(sortedContributors))
                 adjustedBusFactor == Times(rawBusFactor, 2)
             IN  MathMin(adjustedBusFactor, Num(1))

(***************************************************************************)
(* Correctness                                                             *)
(***************************************************************************)
\* per_page of the bug-labelled listForRepo
BugsPerPage == 100

Min(a, b) == IF a < b THEN a ELSE b

\* issues.listForRepo({state: 'all', labels: 'bug', per_page: 100}): one page.
ListBugIssues(bugIssues) == SubSeq(bugIssues, 1, Min(Len(bugIssues), BugsPerPage))

IsOpen(issue) == issue.state = "open"

\* fetchIssuesData, after the request: the two counts.
CountIssues(data) ==
    [openBugIssues |-> Len(SelectSeq(data, IsOpen)), totalOpenIssues |-> Len(data)]

\* The share of open bug issues, not of closed ones.
CorrectnessOf_OpenShare(openBugIssues, totalOpenIssues) ==
    IF totalOpenIssues = 0 THEN Num(1)
    ELSE Div(openBugIssues, totalOpenIssues)

\* calculateCorrectness, after the fetch.
CorrectnessOf(openBugIssues, totalOpenIssues) ==
    IF totalOpenIssues = 0 THEN Num(1)
    ELSE OneMinus(Div(openBugIssues, totalOpenIssues))

(***************************************************************************)
(* Maintainability.  Timestamps are in hours: the code's milliseconds      *)
(* divided by 1000 * 60 * 60 * 24 are hours divided by HoursPerDay.        *)
(***************************************************************************)
\* per_page of the issue listForRepo
IssuesPerPage == 25

HoursPerDay == 24

\* the score reaches 0 at an average of FloorDays days
FloorDays == 14

\* closed_at of an issue that is not closed
NoDate == -1

\* issues.listForRepo({state: "all", per_page: 25, sort: "created", direction: "desc"})
ListIssues(allIssues) == SubSeq(allIssues, 1, Min(Len(allIssues), IssuesPerPage))

\* The loop over the issues: [total, count] of the resolution times, in hours.
RECURSIVE ResolutionTimes(_)
ResolutionTimes(issueList) ==
    IF issueList = <<>> THEN [totalResolutionTime |-> 0, resolvedIssuesCount |-> 0]
    ELSE LET issue == Head(issueList)
             rest == ResolutionTimes(Tail(issueList))
         IN  IF issue.state = "closed" /\ issue.closed_at # NoDate
             THEN [totalResolutionTime |->
                       rest.totalResolutionTime + (issue.closed_at - issue.created_at),
                   resolvedIssuesCount |-> rest.resolvedIssuesCount + 1]
             ELSE rest

\* An average over all the issues sampled, open ones included.
AverageResolutionTimeDays_OverAll(issueList) ==
    LET t == ResolutionTimes(issueList)
    IN  IF t.resolvedIssuesCount > 0
        THEN Div(t.totalResolutionTime, HoursPerDay * Len(issueList))
        ELSE Num(0)

\* averageResolutionTimeDays
AverageResolutionTimeDays(issueList) ==
    LET t == ResolutionTimes(issueList)
    IN  IF t.resolvedIssuesCount > 0
        THEN Div(t.totalResolutionTime, HoursPerDay * t.resolvedIssuesCount)
        ELSE Num(0)

\* calculateMaintainability, after the fetch.
MaintainabilityOf(issueList) ==
    LET averageResolutionTimeDays == AverageResolutionTimeDays(issueList)
    IN  IF Less(Num(FloorDays), averageResolutionTimeDays) THEN Num(0)
        ELSE OneMinus(Over(averageResolutionTimeDays, FloorDays))

(***************************************************************************)
(* Strings are sequences of one-character strings, so that lower-casing    *)
(* and substring search are computed, not assumed.                         *)
(***************************************************************************)
UpperCase ==
    <<"A", "B", "C", "D", "E", "F", "G", "H", "I", "J", "K", "L", "M",
      "N", "O", "P", "Q", "R", "S", "T", "U", "V", "W", "X", "Y", "Z">>

LowerCase ==
    <<"a", "b", "c", "d", "e", "f", "g", "h", "i", "j", "k", "l", "m",
      "n", "o", "p", "q", "r", "s", "t", "u", "v", "w", "x", "y", "z">>

ToLowerChar(c) ==
    IF \E i \in 1..Len(UpperCase) : UpperCase[i] = c
    THEN LowerCase[CHOOSE i \in 1..Len(UpperCase) : UpperCase[i] = c]
    ELSE c

\* String.prototype.toLowerCase
toLowerCase(s) == [i \in 1..Len(s) |-> ToLowerChar(s[i])]

\* String.prototype.includes
includes(s, t) ==
    \E o \in 0..(Len(s) - Len(t)) : \A i \in 1..Len(t) : s[o + i] = t[i]

(***************************************************************************)
(* A checkout: the entries of the cloned tree in readdir order, each with  *)
(* its name, its kind, its parent (0: the clone directory itself, else the *)
(* index of the parent directory), whether readdirSync can read it (for a  *)
(* directory) and its text (for a file).                                   *)
(***************************************************************************)
CloneRoot == 0

\* fs.readdirSync(dir, { withFileTypes: true }): the indices of dir's entries.
RECURSIVE ChildrenFrom(_, _, _)
ChildrenFrom(tree, dir, i) ==
    IF i > Len(tree) THEN <<>>
    ELSE IF tree[i].parent = dir THEN <<i>> \o ChildrenFrom(tree, dir, i + 1)
    ELSE ChildrenFrom(tree, dir, i + 1)

readdirSync(tree, dir) == ChildrenFrom(tree, dir, 1)

Readable(tree, dir) == dir = CloneRoot \/ tree[dir].readable

(***************************************************************************)
(* RampUp                                                                  *)
(***************************************************************************)
\* Object.entries(this.metrics), in insertion order
MetricKeys == <<"example", "test", "readme", "doc", "makefile">>

MetricKeySet == {MetricKeys[i] : i \in 1..Len(MetricKeys)}

\* metric.name
MetricName(key) ==
    CASE key = "example"  -> <<"e", "x", "a", "m", "p", "l", "e">>
      [] key = "test"     -> <<"t", "e", "s", "t">>
      [] key = "readme"   -> <<"r", "e", "a", "d", "m", "e">>
      [] key = "doc"      -> <<"d", "o", "c">>
      [] key = "makefile" -> <<"m", "a", "k", "e", "f", "i", "l", "e">>

\* metric.fileType
MetricFileType(key) ==
    CASE key = "example"  -> "either"
      [] key = "test"     -> "either"
      [] key = "readme"   -> "file"
      [] key = "doc"      -> "either"
      [] key = "makefile" -> "file"

\* The found flags of a freshly constructed RampUp.
InitialMetrics == [key \in MetricKeySet |-> FALSE]

\* A kind check that lets every entry through.
fileTypeMatches_AnyKind(file, key) == MetricFileType(key) \in {"dir", "file", "either"}

fileTypeMatches(file, key) ==
    \/ (file.isDirectory /\ MetricFileType(key) = "dir")
    \/ (~file.isDirectory /\ MetricFileType(key) = "file")
    \/ MetricFileType(key) = "either"

nameMatches(file, key) == includes(toLowerCase(file.name), MetricName(key))

\* A check in which the entry checked last decides each flag.
CheckFile_LastWins(file, found) ==
    [key \in MetricKeySet |-> fileTypeMatches(file, key) /\ nameMatches(file, key)]

\* The inner loop of processRepository: one entry against every metric.
CheckFile(file, found) ==
    [key \in MetricKeySet |->
        IF fileTypeMatches(file, key) /\ nameMatches(file, key) THEN TRUE
        ELSE found[key]]

\* processRepository(dir): found flags after the walk of dir, whether
\* readdirSync threw on the way (the flags set before the throw stay set), and
\* the directories readdirSync listed, in the order of the calls.  A
\* directory is walked before it is itself checked.
RECURSIVE processRepository(_, _, _), ProcessFiles(_, _, _)
processRepository(tree, dir, found) ==
    IF ~Readable(tree, dir) THEN [found |-> found, threw |-> TRUE, visited |-> <<>>]
    ELSE LET rest == ProcessFiles(tree, readdirSync(tree, dir), found)
         IN  [rest EXCEPT !.visited = <<dir>> \o @]

ProcessFiles(tree, files, found) ==
    IF files = <<>> THEN [found |-> found, threw |-> FALSE, visited |-> <<>>]
    ELSE LET file == tree[Head(files)]
             sub == IF file.isDirectory
                    THEN processRepository(tree, Head(files), found)
                    ELSE [found |-> found, threw |-> FALSE, visited |-> <<>>]
         IN  IF sub.threw THEN sub
             ELSE LET rest == ProcessFiles(tree, Tail(files), CheckFile(file, sub.found))
                  IN  [rest EXCEPT !.visited = sub.visited \o @]

\* calculateRampUpScore
calculateRampUpScore(found) ==
    LET totalFound == Cardinality({key \in MetricKeySet : found[key]})
        totalMetrics == Len(MetricKeys)
    IN  Div(totalFound, totalMetrics)

(***************************************************************************)
(* License                                                                 *)
(***************************************************************************)
compatibleLicenses ==
    << <<"L", "G", "P", "L", "-", "2", ".", "1">>,
       <<"L", "G", "P", "L", "-", "2", ".", "1", "-", "o", "n", "l", "y">>,
       <<"L", "G", "P", "L", "-", "2", ".", "1", "-", "o", "r", "-", "l", "a", "t", "e", "r">>,
       <<"G", "P", "L", "-", "2", ".", "0">>,
       <<"G", "P", "L", "-", "2", ".", "0", "-", "o", "n", "l", "y">>,
       <<"G", "P", "L", "-", "2", ".", "0", "-", "o", "r", "-", "l", "a", "t", "e", "r">>,
       <<"M", "I", "T">>,
       <<"B", "S", "D", "-", "2", "-", "C", "l", "a", "u", "s", "e">>,
       <<"B", "S", "D", "-", "3", "-", "C", "l", "a", "u", "s", "e">>,
       <<"A", "p", "a", "c", "h", "e", "-", "2", ".", "0">>,
       <<"M", "P", "L", "-", "1", ".", "1">> >>

LineTerminators == {"\n", "\r"}

\* the characters \s matches
WhiteSpace == {" ", "\t", "\n", "\r"}

\* One character of a regular expression source against one character of
\* the text, under the i flag: "." is any character but a line terminator.
CharMatches(p, c) ==
    IF p = "." THEN c \notin LineTerminators ELSE ToLowerChar(p) = ToLowerChar(c)

\* The pattern matches the text from offset o on.
MatchesAt(pattern, text, o) ==
    /\ o + Len(pattern) <= Len(text)
    /\ \A i \in 1..Len(pattern) : CharMatches(pattern[i], text[o + i])

\* new RegExp(compatibleLicenses.join('|'), 'i').test(licenseText) ? 1 : 0
checkLicenseCompatibility(licenseText) ==
    IF \E k \in 1..Len(compatibleLicenses) : \E o \in 0..Len(licenseText) :
           MatchesAt(compatibleLicenses[k], licenseText, o)
    THEN Num(1) ELSE Num(0)

\* file.match(/^readme\.(md|txt)?$/i)
IsReadmeName(name) ==
    toLowerCase(name) \in
        { <<"r", "e", "a", "d", "m", "e", ".">>,
          <<"r", "e", "a", "d", "m", "e", ".", "m", "d">>,
          <<"r", "e", "a", "d", "m", "e", ".", "t", "x", "t">> }

\* file.match(/^licen[sc]e(\..*)?$/i)
IsLicenseName(name) ==
    LET l == toLowerCase(name)
    IN  /\ Len(l) >= 7
        /\ SubSeq(l, 1, 7) \in { <<"l", "i", "c", "e", "n", "s", "e">>,
                                 <<"l", "i", "c", "e", "n", "c", "e">> }
        /\ \/ Len(l) = 7
           \/ l[8] = "." /\ \A i \in 9..Len(l) : l[i] \notin LineTerminators

\* (Licence|Legal) of the section pattern, at offset o
HeadingAt(content, o) ==
    \/ MatchesAt(<<"L", "i", "c", "e", "n", "c", "e">>, content, o)
    \/ MatchesAt(<<"L", "e", "g", "a", "l">>, content, o)

\* The positions where /##\s*(Licence|Legal)(\s|\S)*/i can match.
SectionStarts(content) ==
    {p \in 1..Len(content) :
        /\ MatchesAt(<<"#", "#">>, content, p - 1)
        /\ \E w \in 0..Len(content) :
              /\ p + 1 + w <= Len(content)
              /\ \A i \in 1..w : content[p + 1 + i] \in WhiteSpace
              /\ HeadingAt(content, p + 1 + w)}

\* A string or null: licenseInfo
Null == [isNull |-> TRUE, text |-> <<>>]

Text(s) == [isNull |-> FALSE, text |-> s]

\* readmeContent.match(/##\s*(Licence|Legal)(\s|\S)*/i): the match, or null
LicenseSection(content) ==
    LET starts == SectionStarts(content)
    IN  IF starts = {} THEN Null
        ELSE LET p == CHOOSE q \in starts : \A r \in starts : q <= r
             IN  Text(SubSeq(content, p, Len(content)))

\* files.find(...): the entries of the clone directory with a README name
\* (readme TRUE) or a LICENSE name, in listing order.
TopNamed(tree, readme) ==
    LET Named(i) == IF readme THEN IsReadmeName(tree[i].name)
                    ELSE IsLicenseName(tree[i].name)
    IN  SelectSeq(readdirSync(tree, CloneRoot), Named)

\* extractLicenseInfo(cloneDir): [threw, info].  readFileSync of a directory
\* throws.
extractLicenseInfo(tree) ==
    LET readmeFiles == TopNamed(tree, TRUE)
        licenseFiles == TopNamed(tree, FALSE)
        readmeThrows == readmeFiles # <<>> /\ tree[readmeFiles[1]].isDirectory
        licenseThrows == licenseFiles # <<>> /\ tree[licenseFiles[1]].isDirectory
        fromReadme == IF readmeFiles = <<>> THEN Null
                      ELSE LicenseSection(tree[readmeFiles[1]].content)
        licenseContent == tree[licenseFiles[1]].content
        \* if (licenseInfo): a non-empty string
        info == IF licenseFiles = <<>> THEN fromReadme
                ELSE IF ~fromReadme.isNull /\ fromReadme.text # <<>>
                     THEN Text(fromReadme.text \o <<"\n">> \o licenseContent)
                     ELSE Text(licenseContent)
    IN  IF readmeThrows \/ licenseThrows THEN [threw |-> TRUE, info |-> Null]
        ELSE [threw |-> FALSE, info |-> info]

\* A license check that treats missing license text as an error.
LicenseOf_NoTextIsError(tree) ==
    LET e == extractLicenseInfo(tree)
    IN  IF e.threw THEN [threw |-> TRUE, license |-> Sentinel]
        ELSE IF ~e.info.isNull /\ e.info.text # <<>>
             THEN [threw |-> FALSE, license |-> checkLicenseCompatibility(e.info.text)]
             ELSE [threw |-> FALSE, license |-> Sentinel]

\* The try block of License.evaluate after the clone: the score, or the throw.
LicenseOf(tree) ==
    LET e == extractLicenseInfo(tree)
    IN  IF e.threw THEN [threw |-> TRUE, license |-> Sentinel]
        ELSE IF ~e.info.isNull /\ e.info.text # <<>>
             THEN [threw |-> FALSE, license |-> checkLicenseCompatibility(e.info.text)]
             ELSE [threw |-> FALSE, license |-> Num(0)]

(***************************************************************************)
(* NetScore: the weights, in hundredths (19.84, 7.47, 30.69, 42.0), of     *)
(* busFactor, correctness, rampUp and maintainability, in that order.      *)
(***************************************************************************)
\* Weights that count the four metrics alike.
weights_Equal == <<2500, 2500, 2500, 2500>>

\* weights: Array<number> = [19.84, 7.47, 30.69, 42.0]
weights == <<1984, 747, 3069, 4200>>

\* x + y
Plus(x, y) ==
    IF IsNaN(x) \/ IsNaN(y) THEN NaN
    ELSE IF IsFinite(x) /\ IsFinite(y)
         THEN LET g == GCD(x.d, y.d)
              IN  Div(x.n * (y.d \div g) + y.n * (x.d \div g), (x.d \div g) * y.d)
    ELSE IF ~IsFinite(x) /\ ~IsFinite(y) /\ x # y THEN NaN
    ELSE IF IsFinite(x) THEN y ELSE x

\* this.weights[i] * metric / 100, the weight given in hundredths
Weighted(w, metric) == Over(Over(Times(metric, w), 100), 100)

\* The for loop of NetScore.evaluate over the four weighted metrics.
RECURSIVE WeightedSum(_, _, _)
WeightedSum(values, i, sum) ==
    IF i > Len(weights) THEN sum
    ELSE WeightedSum(values, i + 1, Plus(sum, Weighted(weights[i], values[i])))

\* if (this.netScore < 0 || this.netScore > 1): the condition of the log
OutOfBounds(x) == Less(x, Num(0)) \/ Less(Num(1), x)

\* The forcing condition without its license clause.
AnyMetricFailed_SentinelOnly(bf, co, li, ru, ma) ==
    \/ bf = Sentinel
    \/ co = Sentinel
    \/ li = Sentinel
    \/ ru = Sentinel
    \/ ma = Sentinel

\* The condition that forces the net score to 0.
AnyMetricFailed(bf, co, li, ru, ma) ==
    \/ bf = Sentinel
    \/ co = Sentinel
    \/ li = Sentinel
    \/ ru = Sentinel
    \/ ma = Sentinel
    \/ li = Num(0)

\* A net score that passes the sentinel on instead of forcing 0.
NetScoreOf_Sentinel(bf, co, li, ru, ma) ==
    IF AnyMetricFailed(bf, co, li, ru, ma) THEN Sentinel
    ELSE WeightedSum(<<bf, co, ru, ma>>, 1, Num(0))

\* The net score NetScore.evaluate computes from the five fields.
NetScoreOf(bf, co, li, ru, ma) ==
    IF AnyMetricFailed(bf, co, li, ru, ma) THEN Num(0)
    ELSE WeightedSum(<<bf, co, ru, ma>>, 1, Num(0))

(***************************************************************************)
(* State.                                                                  *)
(***************************************************************************)
VARIABLES
    upstream,        \* the repository as the hosting service holds it
    quota,           \* the remaining API quota (rate.remaining)
    faults,          \* the requests and clones that have failed so far
    peer,            \* a second RampUp or License object evaluated meanwhile
    cli,             \* the command line: where runTests() or processUrls() stands
    fs,              \* the scratch directories under /tmp
    pc,              \* where each metric's evaluate() stands
    ret,             \* what each metric's evaluate() returned
    responseTime,    \* Metrics.responseTime of each metric object
    remaining,       \* rateLimitStatus.remaining as each evaluate() read it
    page,            \* getCommitData: the page being requested
    commitCounts,    \* getCommitData: the Map built so far
    busFactor,       \* BusFactor.busFactor
    data,            \* fetchIssuesData: the bug-labelled issues fetched
    correctness,     \* Correctness.correctness
    issues,          \* calculateMaintainability: the issues fetched
    maintainability, \* Maintainability.maintainability
    metrics,         \* RampUp.metrics: the found flags
    visited,         \* processRepository: the directories the last walk listed
    rampUp,          \* RampUp.rampUp
    license,         \* License.license
    netPc,           \* where NetScore.evaluate() stands
    netScore,        \* NetScore.netScore
    netRet,          \* what NetScore.evaluate() returned
    netLogged        \* whether evaluate() logged 'NetScore out of bounds'

envVars == <<upstream, quota, faults>>

taskVars == <<pc, ret, responseTime, remaining>>

busVars == <<page, commitCounts, busFactor>>

corrVars == <<data, correctness>>

maintVars == <<issues, maintainability>>

rampVars == <<metrics, visited, rampUp>>

licVars == <<license>>

netVars == <<netPc, netScore, netRet, netLogged>>

vars == <<envVars, peer, cli, fs, taskVars, busVars, corrVars, maintVars, rampVars, licVars, netVars>>

Scorers == {"busFactor", "correctness", "license", "rampUp", "maintainability"}

\* No value yet: evaluate() has not returned.
Pending == [pending |-> TRUE]

\* remaining before evaluate() has read the rate limit status
Unread == -1

\* The exit code of a process that is still running.
NoExit == -1

\* Nothing fetched yet.
NotFetched == [fetched |-> FALSE, list |-> <<>>]

Fetched(list) == [fetched |-> TRUE, list |-> list]

\* One scratch directory for both checkouts.
CloneDir_Shared(s) == IF s = "rampUp" THEN "/tmp/repo-clone" ELSE "/tmp/repo-clone"

\* path.join('/tmp', 'repo-clone-rampUp') and path.join('/tmp', 'repo-clon-license')
CloneDir(s) == IF s = "rampUp" THEN "/tmp/repo-clone-rampUp" ELSE "/tmp/repo-clon-license"

ScratchDirs == {CloneDir("rampUp"), CloneDir("license")}

\* A directory that does not exist, and one holding a checkout.
Absent == [exists |-> FALSE, tree |-> <<>>]

Present(tree) == [exists |-> TRUE, tree |-> tree]

\* A repository with no commits, no issues and no files.
EmptyRepo == [commits |-> <<>>, bugIssues |-> <<>>, issues |-> <<>>, tree |-> <<>>]

\* A freshly constructed RampUp or License object besides the five of the
\* NetScore: its class, its position in evaluate(), its found flags (RampUp),
\* its score field and what evaluate() returned.
Instance(class) ==
    [class |-> class, pc |-> "idle", metrics |-> InitialMetrics,
     score |-> Sentinel, ret |-> Pending]

\* No such object.
NoPeer == Instance("none")

\* The test command has not been given: runTests() is not running.
NotStarted ==
    [pc |-> "idle", apiRemaining |-> <<>>, started |-> <<>>, exitCode |-> NoExit,
     urls |-> <<>>, registry |-> [isNull |-> TRUE, text |-> <<>>], scanned |-> 0,
     githubUrls |-> <<>>, target |-> 0, stdout |-> <<>>]

\* The state of freshly constructed metric objects, before any evaluate().
Constructed ==
    /\ fs = [dir \in ScratchDirs |-> Absent]
    /\ pc = [s \in Scorers |-> "idle"]
    /\ ret = [s \in Scorers |-> Pending]
    /\ responseTime = [s \in Scorers \cup {"netScore"} |-> Num(0)]
    /\ remaining = [s \in Scorers |-> Unread]
    /\ page = 1
    /\ commitCounts = <<>>
    /\ busFactor = Sentinel
    /\ data = NotFetched
    /\ correctness = Sentinel
    /\ issues = NotFetched
    /\ maintainability = Sentinel
    /\ metrics = InitialMetrics
    /\ visited = <<>>
    /\ rampUp = Sentinel
    /\ license = Sentinel
    /\ netPc = "idle"
    /\ netScore = Num(0)
    /\ netRet = Pending
    /\ netLogged = FALSE

\* Whether a request or a clone succeeds: it may fail while faults are left.
Outcomes == IF faults < MaxFaults THEN BOOLEAN ELSE {TRUE}

Outcome(ok) == faults' = IF ok THEN faults ELSE faults + 1

\* The milliseconds between the two performance.now() readings of metric s.
ElapsedMs(s) ==
    CASE s = "busFactor"       -> 850
      [] s = "correctness"     -> 420
      [] s = "maintainability" -> 1300
      [] s = "rampUp"          -> 2500
      [] s = "license"         -> 600
      [] s = "netScore"        -> 2600

\* this.responseTime = Number(endTime - startTime) / 1e6
SetResponseTime(s) ==
    responseTime' = [responseTime EXCEPT ![s] = Over(Num(ElapsedMs(s)), 1000000)]

\* evaluate() of metric s returns value v before its timer was started.
Return(s, v) ==
    /\ pc' = [pc EXCEPT ![s] = "returned"]
    /\ ret' = [ret EXCEPT ![s] = v]
    /\ UNCHANGED responseTime

\* evaluate() of metric s stores its response time and returns value v.
ReturnTimed(s, v) ==
    /\ pc' = [pc EXCEPT ![s] = "returned"]
    /\ ret' = [ret EXCEPT ![s] = v]
    /\ SetResponseTime(s)

\* An exception leaves evaluate() of metric s: its promise rejects.
Throw(s) ==
    /\ pc' = [pc EXCEPT ![s] = "threw"]
    /\ UNCHANGED <<ret, responseTime>>

\* evaluate() of metric s is called and runs to its first await.
FirstAwait(s) ==
    IF s \in {"rampUp", "license"} THEN "clone" ELSE "getRateLimitStatus"

Call(s) ==
    /\ pc[s] = "idle"
    /\ pc' = [pc EXCEPT ![s] = FirstAwait(s)]
    /\ UNCHANGED <<cli, peer, envVars, fs, ret, responseTime, remaining, busVars, corrVars, maintVars,
                   rampVars, licVars, netVars>>

(***************************************************************************)
(* BusFactor.evaluate                                                      *)
(***************************************************************************)
BusFactorEvaluate == Call("busFactor")

\* A rate limit step that goes on to the commits whatever the quota.
BusFactorRateLimit_NoQuotaCheck ==
    /\ pc["busFactor"] = "getRateLimitStatus"
    /\ remaining' = [remaining EXCEPT !["busFactor"] = quota]
    /\ pc' = [pc EXCEPT !["busFactor"] = "listCommits"]
    /\ page' = 1
    /\ commitCounts' = <<>>
    /\ UNCHANGED <<cli, peer, envVars, ret, responseTime, fs, busFactor, corrVars, maintVars, rampVars, licVars, netVars>>

\* await this.getRateLimitStatus() settles.  It is outside any try: a failed
\* request rejects evaluate().  remaining === 0 returns -1 and leaves the
\* field as it was; otherwise getCommitData starts with page 1.
BusFactorRateLimit ==
    /\ pc["busFactor"] = "getRateLimitStatus"
    /\ \E ok \in Outcomes : Outcome(ok) /\
         IF ~ok
         THEN /\ Throw("busFactor")
              /\ UNCHANGED <<remaining, page, commitCounts>>
         ELSE /\ remaining' = [remaining EXCEPT !["busFactor"] = quota]
              /\ IF quota = 0
                 THEN /\ Return("busFactor", Sentinel)
                      /\ UNCHANGED <<page, commitCounts>>
                 ELSE /\ pc' = [pc EXCEPT !["busFactor"] = "listCommits"]
                      /\ page' = 1
                      /\ commitCounts' = <<>>
                      /\ UNCHANGED <<ret, responseTime>>
    /\ UNCHANGED <<cli, peer, upstream, quota, fs, busFactor, corrVars, maintVars, rampVars, licVars, netVars>>

\* await this.octokit.repos.listCommits({... page}) settles, inside
\* getCommitData's loop.  No try surrounds it in getCommitData or evaluate: a
\* failed request (the network, or the quota used up) rejects evaluate().
\* A page of fewer than PerPage commits, or page reaching PageCap, ends the
\* loop, and the bus factor is calculated and stored.
BusFactorListCommits ==
    /\ pc["busFactor"] = "listCommits"
    /\ \E ok \in Outcomes : Outcome(ok) /\
         IF ~ok \/ quota = 0
         THEN /\ Throw("busFactor")
              /\ UNCHANGED <<quota, page, commitCounts, busFactor>>
         ELSE LET commits == ListCommitsPage(upstream.commits, page)
                  counts == CountCommits(commitCounts, commits)
                  last == PageLength(commits) < PerPage
                  result == calculateBusFactor(counts)
              IN  /\ quota' = quota - 1
                  /\ commitCounts' = counts
                  /\ page' = IF last THEN page ELSE page + 1
                  /\ IF last \/ ~(page + 1 < PageCap)
                     THEN IF result = TypeError
                          THEN Throw("busFactor") /\ UNCHANGED busFactor
                          ELSE /\ busFactor' = result
                               /\ ReturnTimed("busFactor", result)
                     ELSE UNCHANGED <<pc, ret, responseTime, busFactor>>
    /\ UNCHANGED <<cli, peer, upstream, fs, remaining, corrVars, maintVars, rampVars, licVars, netVars>>

(***************************************************************************)
(* Correctness.evaluate                                                    *)
(***************************************************************************)
CorrectnessEvaluate == Call("correctness")

\* await this.getRateLimitStatus() settles, outside any try.
CorrectnessRateLimit ==
    /\ pc["correctness"] = "getRateLimitStatus"
    /\ \E ok \in Outcomes : Outcome(ok) /\
         IF ~ok
         THEN Throw("correctness") /\ UNCHANGED remaining
         ELSE /\ remaining' = [remaining EXCEPT !["correctness"] = quota]
              /\ IF quota = 0
                 THEN Return("correctness", Sentinel)
                 ELSE /\ pc' = [pc EXCEPT !["correctness"] = "listForRepo"]
                      /\ UNCHANGED <<ret, responseTime>>
    /\ UNCHANGED <<cli, peer, upstream, quota, fs, busVars, corrVars, maintVars, rampVars, licVars, netVars>>

\* await this.octokit.issues.listForRepo(...) settles in fetchIssuesData, which
\* rethrows a failure to calculateCorrectness, whose catch returns -1; the
\* result, -1 included, is stored in the field.
CorrectnessListForRepo ==
    /\ pc["correctness"] = "listForRepo"
    /\ \E ok \in Outcomes : Outcome(ok) /\
         IF ~ok \/ quota = 0
         THEN /\ correctness' = Sentinel
              /\ ReturnTimed("correctness", Sentinel)
              /\ UNCHANGED <<quota, data>>
         ELSE LET list == ListBugIssues(upstream.bugIssues)
                  c == CountIssues(list)
                  result == CorrectnessOf(c.openBugIssues, c.totalOpenIssues)
              IN  /\ quota' = quota - 1
                  /\ data' = Fetched(list)
                  /\ correctness' = result
                  /\ ReturnTimed("correctness", result)
    /\ UNCHANGED <<cli, peer, upstream, fs, remaining, busVars, maintVars, rampVars, licVars, netVars>>

(***************************************************************************)
(* Maintainability.evaluate                                                *)
(***************************************************************************)
MaintainabilityEvaluate == Call("maintainability")

\* await this.getRateLimitStatus() settles, outside any try.
MaintainabilityRateLimit ==
    /\ pc["maintainability"] = "getRateLimitStatus"
    /\ \E ok \in Outcomes : Outcome(ok) /\
         IF ~ok
         THEN Throw("maintainability") /\ UNCHANGED remaining
         ELSE /\ remaining' = [remaining EXCEPT !["maintainability"] = quota]
              /\ IF quota = 0
                 THEN Return("maintainability", Sentinel)
                 ELSE /\ pc' = [pc EXCEPT !["maintainability"] = "listForRepo"]
                      /\ UNCHANGED <<ret, responseTime>>
    /\ UNCHANGED <<cli, peer, upstream, quota, fs, busVars, corrVars, maintVars, rampVars, licVars, netVars>>

\* await this.octokit.issues.listForRepo(...) settles in
\* calculateMaintainability, whose catch turns a failure into -1.
MaintainabilityListForRepo ==
    /\ pc["maintainability"] = "listForRepo"
    /\ \E ok \in Outcomes : Outcome(ok) /\
         IF ~ok \/ quota = 0
         THEN /\ maintainability' = Sentinel
              /\ ReturnTimed("maintainability", Sentinel)
              /\ UNCHANGED <<quota, issues>>
         ELSE LET list == ListIssues(upstream.issues)
                  result == MaintainabilityOf(list)
              IN  /\ quota' = quota - 1
                  /\ issues' = Fetched(list)
                  /\ maintainability' = result
                  /\ ReturnTimed("maintainability", result)
    /\ UNCHANGED <<cli, peer, upstream, fs, remaining, busVars, corrVars, rampVars, licVars, netVars>>

(***************************************************************************)
(* The checkout of RampUp.evaluate and License.evaluate                    *)
(***************************************************************************)
\* git.clone({dir: cloneDir, url, singleBranch: true, depth: 1}) does its
\* work: the checkout is written and the promise resolves, or the clone
\* fails, with the directory created or not, and the promise rejects.
Clone(s) ==
    /\ pc[s] = "clone"
    /\ \E ok \in Outcomes : Outcome(ok) /\
         IF ok
         THEN /\ fs' = [fs EXCEPT ![CloneDir(s)] = Present(upstream.tree)]
              /\ pc' = [pc EXCEPT ![s] = "cloned"]
         ELSE /\ \E left \in {fs[CloneDir(s)], Present(<<>>)} :
                    fs' = [fs EXCEPT ![CloneDir(s)] = left]
              /\ pc' = [pc EXCEPT ![s] = "cloneFailed"]
    /\ UNCHANGED <<cli, peer, upstream, quota, ret, responseTime, remaining, busVars, corrVars, maintVars,
                   rampVars, licVars, netVars>>

\* A cleanup that leaves the directory in place.
rmSync_Skipped(dir) == fs' = fs

\* fs.rmSync(cloneDir, { recursive: true, force: true })
rmSync(dir) == fs' = [fs EXCEPT ![dir] = Absent]

(***************************************************************************)
(* RampUp.evaluate                                                         *)
(***************************************************************************)
RampUpEvaluate == Call("rampUp")

RampUpClone == Clone("rampUp")

\* The walk of the clone directory as it is on disk: readdirSync of a
\* directory that does not exist throws.
Walk(dir, found) ==
    IF ~dir.exists THEN [found |-> found, threw |-> TRUE, visited |-> <<>>]
    ELSE processRepository(dir.tree, CloneRoot, found)

\* The rest of evaluate() once the clone has settled: the walk and the score,
\* or the catch, which stores -1; then the finally, which removes the
\* directory; then the return of the field.
RampUpProcess ==
    /\ pc["rampUp"] \in {"cloned", "cloneFailed"}
    /\ LET walk == Walk(fs[CloneDir("rampUp")], metrics)
           result == IF pc["rampUp"] = "cloneFailed" \/ walk.threw THEN Sentinel
                     ELSE calculateRampUpScore(walk.found)
       IN  /\ metrics' = IF pc["rampUp"] = "cloneFailed" THEN metrics ELSE walk.found
           /\ visited' = IF pc["rampUp"] = "cloneFailed" THEN <<>> ELSE walk.visited
           /\ rampUp' = result
           /\ ReturnTimed("rampUp", result)
    /\ rmSync(CloneDir("rampUp"))
    /\ UNCHANGED <<cli, peer, envVars, remaining, busVars, corrVars, maintVars, licVars, netVars>>

(***************************************************************************)
(* License.evaluate                                                        *)
(***************************************************************************)
LicenseEvaluate == Call("license")

LicenseClone == Clone("license")

\* The rest of evaluate() once the clone has settled.
LicenseProcess ==
    /\ pc["license"] \in {"cloned", "cloneFailed"}
    /\ LET dir == fs[CloneDir("license")]
           try == IF dir.exists THEN LicenseOf(dir.tree)
                  ELSE [threw |-> TRUE, license |-> Sentinel]
           result == IF pc["license"] = "cloneFailed" \/ try.threw THEN Sentinel
                     ELSE try.license
       IN  /\ license' = result
           /\ ReturnTimed("license", result)
    /\ rmSync(CloneDir("license"))
    /\ UNCHANGED <<cli, peer, envVars, remaining, busVars, corrVars, maintVars, rampVars, netVars>>

(***************************************************************************)
(* NetScore.evaluate                                                       *)
(***************************************************************************)
\* evaluate() is called: the five evaluate() calls of the Promise.all
\* argument each run to their first await, then NetScore awaits the join.
NetScoreEvaluate ==
    /\ netPc = "idle"
    /\ \A s \in Scorers : pc[s] = "idle"
    /\ pc' = [s \in Scorers |-> FirstAwait(s)]
    /\ netPc' = "join"
    /\ UNCHANGED <<cli, peer, envVars, fs, ret, responseTime, remaining, busVars, corrVars, maintVars,
                   rampVars, licVars, netScore, netRet, netLogged>>

\* Promise.all resolves once all five promises have: the net score is
\* computed from the five fields and returned.
NetScoreJoin ==
    /\ netPc = "join"
    /\ \A s \in Scorers : pc[s] = "returned"
    /\ netScore' = NetScoreOf(busFactor, correctness, license, rampUp, maintainability)
    /\ netRet' = netScore'
    /\ IF AnyMetricFailed(busFactor, correctness, license, rampUp, maintainability)
       THEN UNCHANGED <<responseTime, netLogged>>
       ELSE /\ netLogged' = OutOfBounds(netScore')
            /\ SetResponseTime("netScore")
    /\ netPc' = "returned"
    /\ UNCHANGED <<cli, peer, envVars, fs, pc, ret, remaining, busVars, corrVars, maintVars,
                   rampVars, licVars>>

\* Promise.all rejects as soon as one of the five promises does: the
\* exception leaves evaluate(), whatever the other four are doing.
NetScoreReject ==
    /\ netPc = "join"
    /\ \E s \in Scorers : pc[s] = "threw"
    /\ netPc' = "threw"
    /\ UNCHANGED <<cli, peer, envVars, fs, taskVars, busVars, corrVars, maintVars, rampVars,
                   licVars, netScore, netRet, netLogged>>

\* The URL a NetScore is constructed with outside processUrls().
SampleURL == <<"h", "t", "t", "p", "s", ":", "/", "/", "g", "i", "t", "h", "u", "b", ".", "c", "o", "m", "/", "o", "w", "n", "e", "r", "/", "r", "e", "p", "o">>

\* this.NativeURL: the line of the URL file the target came from.
NativeURL ==
    IF cli.target \in 1..Len(cli.githubUrls) THEN cli.githubUrls[cli.target][1]
    ELSE SampleURL

\* NetScore.toString(): the keys of the record in the order written, each with
\* the text written for its value.  The replace() calls that follow turn
\* every run of white space, line breaks included, into one blank or none.
toString ==
    << <<"URL", NativeURL>>,
       <<"NetScore", toFixed(netScore, 3)>>,
       <<"NetScore_Latency", toFixed(responseTime["netScore"], 3)>>,
       <<"RampUp", toFixed(rampUp, 3)>>,
       <<"RampUp_Latency", toFixed(responseTime["rampUp"], 3)>>,
       <<"Correctness", toFixed(correctness, 3)>>,
       <<"Correctness_Latency", toFixed(responseTime["correctness"], 3)>>,
       <<"BusFactor", toFixed(busFactor, 3)>>,
       <<"BusFactor_Latency", toFixed(responseTime["busFactor"], 3)>>,
       <<"ResponsiveMaintainer", toFixed(maintainability, 3)>>,
       <<"ResponsiveMaintainer_Latency", toFixed(responseTime["maintainability"], 3)>>,
       <<"License", toFixed(license, 3)>>,
       <<"License_Latency", toFixed(responseTime["license"], 3)>> >>

(***************************************************************************)
(* Inputs.                                                                 *)
(***************************************************************************)
\* Bug-labelled issue lists have up to MaxBugIssues issues.
MaxBugIssues == 3

\* Issue lists have up to MaxIssues issues.
MaxIssues == 2

\* Checkouts have up to MaxEntries entries.
MaxEntries == 3

\* Commit counts that reach or miss the 85% threshold exactly.
SampleCounts == {15, 17, 85}

Counts == (1..MaxCount) \cup SampleCounts

\* The sequences without repetition over the set S.
RECURSIVE Arrangements(_)
Arrangements(S) ==
    {<<>>} \cup UNION {{<<x>> \o a : a \in Arrangements(S \ {x})} : x \in S}

\* One page of at most PerPage commits, one run per author.
HistogramPages ==
    {p \in UNION {[1..Len(a) -> [author : Authors, n : Counts]] : a \in Arrangements(Authors)} :
        /\ \A i, j \in 1..Len(p) : i # j => p[i].author # p[j].author
        /\ PageLength(p) <= PerPage}

\* Commit lists with commits without a login, authors met again, several pages.
SampleCommitLists ==
    { << <<[author |-> NoLogin, n |-> 3]>> >>,
      << <<[author |-> "alice", n |-> 1], [author |-> NoLogin, n |-> 2],
           [author |-> "bob", n |-> 1], [author |-> "alice", n |-> 15]>> >>,
      << <<[author |-> "alice", n |-> 100]>>,
         <<[author |-> "bob", n |-> 15], [author |-> NoLogin, n |-> 2]>> >>,
      << <<[author |-> NoLogin, n |-> 100]>>, <<>> >> }

CommitLists ==
    {IF p = <<>> THEN <<>> ELSE <<p>> : p \in HistogramPages} \cup SampleCommitLists

\* The sequences over S of length at most n.
SeqsUpTo(S, n) == UNION {[1..k -> S] : k \in 0..n}

BugIssueLists == SeqsUpTo([state : {"open", "closed"}], MaxBugIssues)

\* Creation times and resolution times, in hours: half a day, 7, 14, 15 and
\* 28 days.
CreatedAts == {0, 24}

Durations == {0, 12, 168, 336, 360, 672}

IssueKinds ==
    {[state |-> "open", created_at |-> c, closed_at |-> NoDate] : c \in CreatedAts}
    \cup {[state |-> "closed", created_at |-> c, closed_at |-> c + d] :
              c \in CreatedAts, d \in Durations}

\* The API sorts by creation time, descending.
IssueLists ==
    {l \in SeqsUpTo(IssueKinds, MaxIssues) :
        \A i \in 1..(Len(l) - 1) : l[i].created_at >= l[i + 1].created_at}

File(name) == [name |-> name, isDirectory |-> FALSE, readable |-> TRUE, content |-> <<>>]

FileWith(name, content) ==
    [name |-> name, isDirectory |-> FALSE, readable |-> TRUE, content |-> content]

Directory(name) == [name |-> name, isDirectory |-> TRUE, readable |-> TRUE, content |-> <<>>]

Unreadable(name) == [name |-> name, isDirectory |-> TRUE, readable |-> FALSE, content |-> <<>>]

In(entry, parent) ==
    [name |-> entry.name, isDirectory |-> entry.isDirectory,
     readable |-> entry.readable, content |-> entry.content, parent |-> parent]

ReadmeMd == File(<<"R", "E", "A", "D", "M", "E", ".", "m", "d">>)

TestDir == Directory(<<"t", "e", "s", "t">>)

MakefileFile == File(<<"M", "a", "k", "e", "f", "i", "l", "e">>)

DocsDir == Directory(<<"d", "o", "c", "s">>)

ExampleJs == File(<<"e", "x", "a", "m", "p", "l", "e", ".", "j", "s">>)

MakefilesDir == Directory(<<"m", "a", "k", "e", "f", "i", "l", "e", "s">>)

SrcDir == Directory(<<"s", "r", "c">>)

PrivateDir == Unreadable(<<"p", "r", "i", "v", "a", "t", "e">>)

EntryPool ==
    {ReadmeMd, TestDir, MakefileFile, DocsDir, ExampleJs, MakefilesDir, SrcDir, PrivateDir}

\* The checkouts of up to MaxEntries entries: an entry lies in the clone
\* directory or in a directory listed before it, and no two entries of a
\* directory share a name.
Trees ==
    UNION {
        {t \in [1..k -> {In(e, p) : e \in EntryPool, p \in 0..(MaxEntries - 1)}] :
            /\ \A i \in 1..k :
                  /\ t[i].parent < i
                  /\ t[i].parent # CloneRoot => t[t[i].parent].isDirectory
            /\ \A i, j \in 1..k :
                  (i # j /\ t[i].parent = t[j].parent) => t[i].name # t[j].name}
        : k \in 0..MaxEntries}

(***************************************************************************)
(* Each metric alone, as its test function runs it: one evaluate() of a    *)
(* freshly constructed object.                                             *)
(***************************************************************************)
InitBusFactor ==
    /\ upstream \in {[EmptyRepo EXCEPT !.commits = c] : c \in CommitLists}
    /\ quota \in 0..MaxQuota
    /\ faults = 0
    /\ peer = NoPeer
    /\ cli = NotStarted
    /\ Constructed

NextBusFactor ==
    \/ BusFactorEvaluate
    \/ BusFactorRateLimit
    \/ BusFactorListCommits

SpecBusFactor == InitBusFactor /\ [][NextBusFactor]_vars

\* Long histories: some full pages of PerPage commits, then nothing more, an
\* empty page or a short page.
FullPages ==
    {<<[author |-> "alice", n |-> 100]>>,
     <<[author |-> "bob", n |-> 60], [author |-> NoLogin, n |-> 40]>>}

LastPages ==
    {<<>>, << <<>> >>, << <<[author |-> "alice", n |-> 99]>> >>,
     << <<[author |-> NoLogin, n |-> 1], [author |-> "carol", n |-> 2]>> >>}

PagedCommitLists ==
    {[p \in 1..k |-> full] \o last :
        k \in 0..(PageCap + 1), full \in FullPages, last \in LastPages}

\* The quota a long history is fetched with: more than the pages there are.
PagingQuota == 2 * PageCap

InitCommitPages ==
    /\ upstream \in {[EmptyRepo EXCEPT !.commits = c] : c \in PagedCommitLists}
    /\ quota = PagingQuota
    /\ faults = 0
    /\ peer = NoPeer
    /\ cli = NotStarted
    /\ Constructed

SpecCommitPages == InitCommitPages /\ [][NextBusFactor]_vars

InitCorrectness ==
    /\ upstream \in {[EmptyRepo EXCEPT !.bugIssues = l] : l \in BugIssueLists}
    /\ quota \in 0..MaxQuota
    /\ faults = 0
    /\ peer = NoPeer
    /\ cli = NotStarted
    /\ Constructed

NextCorrectness ==
    \/ CorrectnessEvaluate
    \/ CorrectnessRateLimit
    \/ CorrectnessListForRepo

SpecCorrectness == InitCorrectness /\ [][NextCorrectness]_vars

InitMaintainability ==
    /\ upstream \in {[EmptyRepo EXCEPT !.issues = l] : l \in IssueLists}
    /\ quota \in 0..MaxQuota
    /\ faults = 0
    /\ peer = NoPeer
    /\ cli = NotStarted
    /\ Constructed

NextMaintainability ==
    \/ MaintainabilityEvaluate
    \/ MaintainabilityRateLimit
    \/ MaintainabilityListForRepo

SpecMaintainability == InitMaintainability /\ [][NextMaintainability]_vars

InitRampUp ==
    /\ upstream \in {[EmptyRepo EXCEPT !.tree = t] : t \in Trees}
    /\ quota = MaxQuota
    /\ faults = 0
    /\ peer = NoPeer
    /\ cli = NotStarted
    /\ Constructed

NextRampUp ==
    \/ RampUpEvaluate
    \/ RampUpClone
    \/ RampUpProcess

SpecRampUp == InitRampUp /\ [][NextRampUp]_vars

(***************************************************************************)
(* NetScore, as processUrls and NetScoreTest run it: one evaluate() of a   *)
(* freshly constructed NetScore, which constructs its five metrics.        *)
(***************************************************************************)
LicenseMit ==
    FileWith(<<"L", "I", "C", "E", "N", "S", "E">>,
             <<"M", "I", "T", " ", "L", "i", "c", "e", "n", "s", "e">>)

ReadmeApache ==
    FileWith(<<"R", "E", "A", "D", "M", "E", ".", "m", "d">>,
             <<"#", " ", "d", "e", "m", "o", "\n", "#", "#", " ", "L", "i", "c",
               "e", "n", "c", "e", "\n", "A", "p", "a", "c", "h", "e", "-", "2", ".", "0">>)

ClosedAfter(d) == [state |-> "closed", created_at |-> 0, closed_at |-> d]

\* Three authors, one bug of two open, a README with a licence section,
\* docs/example.js.
RepoPartial ==
    [commits |-> << <<[author |-> "alice", n |-> 17], [author |-> "bob", n |-> 2],
                     [author |-> "carol", n |-> 1]>> >>,
     bugIssues |-> <<[state |-> "open"], [state |-> "closed"]>>,
     issues |-> <<ClosedAfter(168), [state |-> "open", created_at |-> 0, closed_at |-> NoDate]>>,
     tree |-> <<In(ReadmeApache, CloneRoot), In(DocsDir, CloneRoot), In(ExampleJs, 2)>>]

\* Every metric at its best.
RepoBest ==
    [commits |-> << <<[author |-> "alice", n |-> 1]>> >>,
     bugIssues |-> <<[state |-> "closed"]>>,
     issues |-> <<ClosedAfter(0)>>,
     tree |-> <<In(LicenseMit, CloneRoot), In(ReadmeMd, CloneRoot), In(TestDir, CloneRoot),
                In(MakefileFile, CloneRoot), In(DocsDir, CloneRoot), In(ExampleJs, 5)>>]

\* Commits without an author login only, and an MIT licence file.
RepoUnattributed ==
    [commits |-> << <<[author |-> NoLogin, n |-> 2]>> >>,
     bugIssues |-> <<[state |-> "closed"]>>,
     issues |-> <<ClosedAfter(0)>>,
     tree |-> <<In(LicenseMit, CloneRoot)>>]

SampleRepos == {EmptyRepo, RepoPartial, RepoBest, RepoUnattributed}

Init ==
    /\ upstream \in SampleRepos
    /\ quota \in 0..MaxQuota
    /\ faults = 0
    /\ peer = NoPeer
    /\ cli = NotStarted
    /\ Constructed

Next ==
    \/ NetScoreEvaluate
    \/ BusFactorRateLimit
    \/ BusFactorListCommits
    \/ CorrectnessRateLimit
    \/ CorrectnessListForRepo
    \/ MaintainabilityRateLimit
    \/ MaintainabilityListForRepo
    \/ RampUpClone
    \/ RampUpProcess
    \/ LicenseClone
    \/ LicenseProcess
    \/ NetScoreJoin
    \/ NetScoreReject

Spec == Init /\ [][Next]_vars


(***************************************************************************)
(* License alone, as LicenseTest runs it: one evaluate() of a freshly      *)
(* constructed License, over checkouts of up to two top-level entries.     *)
(***************************************************************************)
ReadmeTexts ==
    { <<"#", " ", "x">>,
      <<"#", " ", "x", "\n", "#", "#", " ", "L", "i", "c", "e", "n", "s", "e", "\n", "M", "I", "T">>,
      <<"#", " ", "d", "e", "m", "o", "\n", "#", "#", " ", "L", "i", "c",
        "e", "n", "c", "e", "\n", "A", "p", "a", "c", "h", "e", "-", "2", ".", "0">>,
      <<"M", "I", "T", "\n", "#", "#", " ", "L", "e", "g", "a", "l", "\n", "n", "o", "n", "e">> }

LicenseTexts ==
    { <<>>,
      <<"M", "I", "T", " ", "L", "i", "c", "e", "n", "s", "e">>,
      <<"A", "l", "l", " ", "r", "i", "g", "h", "t", "s", " ", "r", "e", "s", "e", "r", "v", "e", "d">>,
      <<"G", "P", "L", "-", "2", "x", "0">>,
      <<"r", "e", "l", "e", "a", "s", "e", "d", " ", "u", "n", "d", "e", "r", " ", "t", "h", "e",
        " ", "m", "i", "t", " ", "l", "i", "c", "e", "n", "s", "e">> }

ReadmeNames == { <<"R", "E", "A", "D", "M", "E", ".", "m", "d">>, <<"R", "E", "A", "D", "M", "E">> }

LicenseNames ==
    { <<"L", "I", "C", "E", "N", "S", "E">>,
      <<"l", "i", "c", "e", "n", "c", "e", ".", "m", "d">> }

\* Top-level entries that bear on the license: README and LICENSE files of
\* several names and texts, and directories with such names.
LicenseEntries ==
    {FileWith(n, t) : n \in ReadmeNames, t \in ReadmeTexts}
    \cup {FileWith(n, t) : n \in LicenseNames, t \in LicenseTexts}
    \cup {Directory(<<"r", "e", "a", "d", "m", "e", ".", "t", "x", "t">>),
          Directory(<<"L", "I", "C", "E", "N", "S", "E">>)}

LicenseTrees ==
    {<<>>}
    \cup {<<In(f, CloneRoot)>> : f \in LicenseEntries}
    \cup {<<In(p[1], CloneRoot), In(p[2], CloneRoot)>> :
              p \in {q \in LicenseEntries \X LicenseEntries : q[1].name # q[2].name}}

InitLicense ==
    /\ upstream \in {[EmptyRepo EXCEPT !.tree = t] : t \in LicenseTrees}
    /\ quota = MaxQuota
    /\ faults = 0
    /\ peer = NoPeer
    /\ cli = NotStarted
    /\ Constructed

NextLicense ==
    \/ LicenseEvaluate
    \/ LicenseClone
    \/ LicenseProcess

SpecLicense == InitLicense /\ [][NextLicense]_vars

(***************************************************************************)
(* Checkouts in flight together: the RampUp and the License of one         *)
(* NetScore, and a second RampUp or License object (of another NetScore,   *)
(* or of another run of the program) evaluated meanwhile.  Every object    *)
(* of a class computes the same clone directory.                           *)
(***************************************************************************)
\* evaluate() of the second object is called and runs to its clone.
PeerEvaluate ==
    /\ peer.class # "none"
    /\ peer.pc = "idle"
    /\ peer' = [peer EXCEPT !.pc = "clone"]
    /\ UNCHANGED <<cli, envVars, fs, taskVars, busVars, corrVars, maintVars, rampVars,
                   licVars, netVars>>

\* await this.cloneRepository(cloneDir) of the second object settles.
PeerClone ==
    /\ peer.pc = "clone"
    /\ \E ok \in Outcomes : Outcome(ok) /\
         IF ok
         THEN /\ fs' = [fs EXCEPT ![CloneDir(peer.class)] = Present(upstream.tree)]
              /\ peer' = [peer EXCEPT !.pc = "cloned"]
         ELSE /\ \E left \in {fs[CloneDir(peer.class)], Present(<<>>)} :
                    fs' = [fs EXCEPT ![CloneDir(peer.class)] = left]
              /\ peer' = [peer EXCEPT !.pc = "cloneFailed"]
    /\ UNCHANGED <<cli, upstream, quota, taskVars, busVars, corrVars, maintVars, rampVars,
                   licVars, netVars>>

\* The rest of evaluate() of the second object: the walk or the license
\* check, the catch, the finally that removes the directory, the return.
PeerProcess ==
    /\ peer.pc \in {"cloned", "cloneFailed"}
    /\ LET dir == fs[CloneDir(peer.class)]
           walk == Walk(dir, peer.metrics)
           try == IF dir.exists THEN LicenseOf(dir.tree)
                  ELSE [threw |-> TRUE, license |-> Sentinel]
           threw == IF peer.class = "rampUp" THEN walk.threw ELSE try.threw
           result == IF peer.pc = "cloneFailed" \/ threw THEN Sentinel
                     ELSE IF peer.class = "rampUp" THEN calculateRampUpScore(walk.found)
                     ELSE try.license
       IN  peer' = [peer EXCEPT
                       !.pc = "returned",
                       !.metrics = IF peer.class = "rampUp" /\ peer.pc = "cloned"
                                   THEN walk.found ELSE peer.metrics,
                       !.score = result,
                       !.ret = result]
    /\ rmSync(CloneDir(peer.class))
    /\ UNCHANGED <<cli, envVars, taskVars, busVars, corrVars, maintVars, rampVars,
                   licVars, netVars>>

\* Checkouts that can be walked and read, one whose walk fails and one whose
\* LICENSE cannot be read.
SampleCheckouts ==
    { RepoPartial.tree,
      RepoBest.tree,
      <<In(PrivateDir, CloneRoot), In(LicenseMit, CloneRoot)>>,
      <<In(Directory(<<"L", "I", "C", "E", "N", "S", "E">>), CloneRoot), In(TestDir, CloneRoot)>> }

InitCheckouts ==
    /\ upstream \in {[EmptyRepo EXCEPT !.tree = t] : t \in SampleCheckouts}
    /\ quota = MaxQuota
    /\ faults = 0
    /\ peer \in {Instance("rampUp"), Instance("license")}
    /\ cli = NotStarted
    /\ Constructed

NextCheckouts ==
    \/ RampUpEvaluate
    \/ RampUpClone
    \/ RampUpProcess
    \/ LicenseEvaluate
    \/ LicenseClone
    \/ LicenseProcess
    \/ PeerEvaluate
    \/ PeerClone
    \/ PeerProcess

SpecCheckouts == InitCheckouts /\ [][NextCheckouts]_vars

(***************************************************************************)
(* The test command: runTests() of the command line.                       *)
(***************************************************************************)
\* if (status.data.rate.remaining < 300)
LowRateLimit == 300

\* A low-quota test that lets a quota of 0 and more through.
RateLimitIsLow_Never(rateRemaining) == rateRemaining < 0

RateLimitIsLow(rateRemaining) == rateRemaining < LowRateLimit

\* The test groups in the order runTests() awaits them.
TestGroups ==
    <<"LicenseTest", "BusFactorTest", "CorrectnessTest", "RampUpTest",
      "MaintainabilityTest", "NetScoreTest">>

\* The API calls one test group may use.
GroupCalls == {0, 10, 45}

\* runTests() is called and runs to its first await, OCTOKIT.rateLimit.get().
RunTestsCall ==
    /\ cli.pc = "idle"
    /\ cli' = [cli EXCEPT !.pc = "rateLimit"]
    /\ UNCHANGED <<peer, envVars, fs, taskVars, busVars, corrVars, maintVars, rampVars,
                   licVars, netVars>>

\* The first rateLimit.get() settles.  A failed request rejects runTests(),
\* which nothing catches: the process ends with a non-zero code.  A quota
\* below 300 is warned about and exit(1) ends the process; otherwise the
\* first test group is called.
RunTestsRateLimit ==
    /\ cli.pc = "rateLimit"
    /\ \E ok \in Outcomes : Outcome(ok) /\
         IF ~ok
         THEN cli' = [cli EXCEPT !.pc = "rejected", !.exitCode = 1]
         ELSE IF RateLimitIsLow(quota)
              THEN cli' = [cli EXCEPT !.pc = "exited", !.exitCode = 1,
                                      !.apiRemaining = Append(@, quota)]
              ELSE cli' = [cli EXCEPT !.pc = "group",
                                      !.apiRemaining = Append(@, quota),
                                      !.started = Append(@, TestGroups[1])]
    /\ UNCHANGED <<peer, upstream, quota, fs, taskVars, busVars, corrVars, maintVars,
                   rampVars, licVars, netVars>>

\* The test group awaited resolves, having used some of the quota, and
\* runTests() awaits rateLimit.get() again.
RunTestsGroup ==
    /\ cli.pc = "group"
    /\ \E used \in GroupCalls : quota' = IF used > quota THEN 0 ELSE quota - used
    /\ cli' = [cli EXCEPT !.pc = "groupRateLimit"]
    /\ UNCHANGED <<peer, upstream, faults, fs, taskVars, busVars, corrVars, maintVars,
                   rampVars, licVars, netVars>>

\* The rateLimit.get() after a test group settles: the next group is called,
\* or after the last one the totals are written and runTests() returns.
RunTestsGroupRateLimit ==
    /\ cli.pc = "groupRateLimit"
    /\ \E ok \in Outcomes : Outcome(ok) /\
         IF ~ok
         THEN cli' = [cli EXCEPT !.pc = "rejected", !.exitCode = 1]
         ELSE IF Len(cli.started) < Len(TestGroups)
              THEN cli' = [cli EXCEPT !.pc = "group",
                                      !.apiRemaining = Append(@, quota),
                                      !.started = Append(@, TestGroups[Len(@) + 1])]
              ELSE cli' = [cli EXCEPT !.pc = "done", !.exitCode = 0,
                                      !.apiRemaining = Append(@, quota)]
    /\ UNCHANGED <<peer, upstream, quota, fs, taskVars, busVars, corrVars, maintVars,
                   rampVars, licVars, netVars>>

\* The quota the token may have left when the test command is given.
TestQuotas == {0, LowRateLimit - 1, LowRateLimit, LowRateLimit + 1, 2 * LowRateLimit}

InitRunTests ==
    /\ upstream = EmptyRepo
    /\ quota \in TestQuotas
    /\ faults = 0
    /\ peer = NoPeer
    /\ cli = NotStarted
    /\ Constructed

NextRunTests ==
    \/ RunTestsCall
    \/ RunTestsRateLimit
    \/ RunTestsGroup
    \/ RunTestsGroupRateLimit

SpecRunTests == InitRunTests /\ [][NextRunTests]_vars

(***************************************************************************)
(* The URL file command: processUrls() of the command line.                *)
(***************************************************************************)
GithubHost == <<"g", "i", "t", "h", "u", "b", ".", "c", "o", "m">>

NpmHost == <<"n", "p", "m", "j", "s", ".", "c", "o", "m">>

\* s.startsWith(t), s.endsWith(t)
StartsWith(s, t) == Len(t) <= Len(s) /\ SubSeq(s, 1, Len(t)) = t

EndsWith(s, t) == Len(t) <= Len(s) /\ SubSeq(s, Len(s) - Len(t) + 1, Len(s)) = t

\* s.replace(/^prefix/, by)
ReplacePrefix(s, prefix, by) ==
    IF StartsWith(s, prefix) THEN by \o SubSeq(s, Len(prefix) + 1, Len(s)) ELSE s

\* s.replace(/suffix$/, '')
DropSuffix(s, suffix) ==
    IF EndsWith(s, suffix) THEN SubSeq(s, 1, Len(s) - Len(suffix)) ELSE s

\* The length of the run of characters other than "/" that starts at i.
RECURSIVE SegmentLength(_, _)
SegmentLength(s, i) ==
    IF i > Len(s) \/ s[i] = "/" THEN 0 ELSE 1 + SegmentLength(s, i + 1)

\* url.match(/github\.com\/([^/]+)\/([^/]+)/) of getRepoData: owner and repo
\* of the leftmost match, or the throw of an invalid URL.
getRepoData(url) ==
    LET prefix == GithubHost \o <<"/">>
        starts == {p \in 1..Len(url) :
                      /\ p + Len(prefix) - 1 <= Len(url)
                      /\ SubSeq(url, p, p + Len(prefix) - 1) = prefix
                      /\ LET o == p + Len(prefix)
                             n == SegmentLength(url, o)
                         IN  /\ n >= 1
                             /\ o + n <= Len(url)
                             /\ url[o + n] = "/"
                             /\ SegmentLength(url, o + n + 1) >= 1}
    IN  IF starts = {} THEN [threw |-> TRUE, owner |-> <<>>, repo |-> <<>>]
        ELSE LET p == CHOOSE q \in starts : \A r \in starts : q <= r
                 o == p + Len(prefix)
                 n == SegmentLength(url, o)
             IN  [threw |-> FALSE,
                  owner |-> SubSeq(url, o, o + n - 1),
                  repo |-> SubSeq(url, o + n + 1, o + n + SegmentLength(url, o + n + 1))]

\* npmUrl.split('/').pop()
RECURSIVE LastSegment(_)
LastSegment(s) ==
    IF s = <<>> \/ s[Len(s)] = "/" THEN <<>>
    ELSE LastSegment(SubSeq(s, 1, Len(s) - 1)) \o <<s[Len(s)]>>

\* What the registry answers for a package: response.data.repository?.url,
\* a string or undefined.
RegistryAnswers ==
    {Null,
     Text(<<"g", "i", "t", "+", "h", "t", "t", "p", "s", ":", "/", "/", "g", "i", "t", "h", "u", "b", ".", "c", "o", "m", "/", "o", "/", "r", ".", "g", "i", "t">>),
     Text(<<"g", "i", "t", "+", "s", "s", "h", ":", "/", "/", "g", "i", "t", "@", "g", "i", "t", "h", "u", "b", ".", "c", "o", "m", "/", "o", "/", "r", ".", "g", "i", "t">>),
     Text(<<"h", "t", "t", "p", "s", ":", "/", "/", "g", "i", "t", "l", "a", "b", ".", "c", "o", "m", "/", "o", "/", "r">>)}

\* getGithubUrlFromNpm once axios.get has settled: the normalised repository
\* URL, or null when the request failed, the package has no repository URL
\* or the URL is not on the hosting service.
getGithubUrlFromNpm(npmUrl, ok, repoUrl) ==
    IF LastSegment(npmUrl) = <<>> \/ ~ok THEN Null
    ELSE IF ~repoUrl.isNull /\ repoUrl.text # <<>> /\ includes(repoUrl.text, GithubHost)
         THEN Text(ReplacePrefix(
                       DropSuffix(
                           ReplacePrefix(
                               ReplacePrefix(repoUrl.text, <<"g", "i", "t", "+">>, <<>>),
                               <<"s", "s", "h", ":", "/", "/", "g", "i", "t", "@", "g", "i", "t", "h", "u", "b", ".", "c", "o", "m">>, <<"h", "t", "t", "p", "s", ":", "/", "/", "g", "i", "t", "h", "u", "b", ".", "c", "o", "m">>),
                           <<".", "g", "i", "t">>),
                       <<"g", "i", "t", ":", "/", "/">>, <<"h", "t", "t", "p", "s", ":", "/", "/">>))
         ELSE Null

\* The first loop of processUrls from line k on, up to the first line that
\* awaits the registry or to the end of the file.  url.trim() leaves url as
\* it is.
RECURSIVE ScanUrls(_, _, _)
ScanUrls(urls, k, githubUrls) ==
    IF k > Len(urls) THEN [scanned |-> k, githubUrls |-> githubUrls, awaits |-> FALSE]
    ELSE IF urls[k] = <<>> THEN ScanUrls(urls, k + 1, githubUrls)
    ELSE IF includes(urls[k], GithubHost)
         THEN ScanUrls(urls, k + 1, Append(githubUrls, <<urls[k], urls[k]>>))
    ELSE IF includes(urls[k], NpmHost)
         THEN [scanned |-> k, githubUrls |-> githubUrls, awaits |-> TRUE]
    ELSE ScanUrls(urls, k + 1, githubUrls)

\* new NetScore(url[0], url[1]) followed by evaluate() up to its await: six
\* fresh metric objects, the five scorers each at their first await.
NewNetScoreEvaluate ==
    /\ pc' = [s \in Scorers |-> FirstAwait(s)]
    /\ ret' = [s \in Scorers |-> Pending]
    /\ responseTime' = [s \in Scorers \cup {"netScore"} |-> Num(0)]
    /\ remaining' = [s \in Scorers |-> Unread]
    /\ page' = 1
    /\ commitCounts' = <<>>
    /\ busFactor' = Sentinel
    /\ data' = NotFetched
    /\ correctness' = Sentinel
    /\ issues' = NotFetched
    /\ maintainability' = Sentinel
    /\ metrics' = InitialMetrics
    /\ visited' = <<>>
    /\ rampUp' = Sentinel
    /\ license' = Sentinel
    /\ netPc' = "join"
    /\ netScore' = Num(0)
    /\ netRet' = Pending
    /\ netLogged' = FALSE

\* The second loop of processUrls from the target c.target on, c being the
\* command's record so far: past the last target processUrls() returns; a
\* target getRepoData rejects makes the constructor throw, which nothing
\* catches; otherwise evaluate() is called and awaited.
NextTarget(c) ==
    IF c.target > Len(c.githubUrls)
    THEN /\ cli' = [c EXCEPT !.pc = "done", !.exitCode = 0]
         /\ UNCHANGED <<taskVars, busVars, corrVars, maintVars, rampVars, licVars, netVars>>
    ELSE IF getRepoData(c.githubUrls[c.target][2]).threw
    THEN /\ cli' = [c EXCEPT !.pc = "rejected", !.exitCode = 1]
         /\ UNCHANGED <<taskVars, busVars, corrVars, maintVars, rampVars, licVars, netVars>>
    ELSE /\ cli' = [c EXCEPT !.pc = "evaluate"]
         /\ NewNetScoreEvaluate

\* The first loop goes on from line k; when it ends the second loop starts.
ScanThenEvaluate(c, k, githubUrls) ==
    LET scan == ScanUrls(c.urls, k, githubUrls)
        after == [c EXCEPT !.scanned = scan.scanned, !.githubUrls = scan.githubUrls]
    IN  IF scan.awaits
        THEN /\ cli' = [after EXCEPT !.pc = "getGithubUrlFromNpm"]
             /\ UNCHANGED <<taskVars, busVars, corrVars, maintVars, rampVars, licVars, netVars>>
        ELSE NextTarget([after EXCEPT !.target = 1])

\* processUrls() is called and runs to its first await, OCTOKIT.rateLimit.get().
ProcessUrlsCall ==
    /\ cli.pc = "idle"
    /\ cli' = [cli EXCEPT !.pc = "processUrls"]
    /\ UNCHANGED <<peer, envVars, fs, taskVars, busVars, corrVars, maintVars, rampVars,
                   licVars, netVars>>

\* rateLimit.get() settles: a failed request rejects processUrls(); otherwise
\* the file is read and its lines are scanned.
ProcessUrlsRateLimit ==
    /\ cli.pc = "processUrls"
    /\ \E ok \in Outcomes : Outcome(ok) /\
         IF ~ok
         THEN /\ cli' = [cli EXCEPT !.pc = "rejected", !.exitCode = 1]
              /\ UNCHANGED <<taskVars, busVars, corrVars, maintVars, rampVars, licVars, netVars>>
         ELSE ScanThenEvaluate(cli, 1, <<>>)
    /\ UNCHANGED <<peer, upstream, quota, fs>>

\* await getGithubUrlFromNpm(url) settles for the line being scanned: the
\* line is kept with the URL found, or dropped, and the scan goes on.
ProcessUrlsNpm ==
    /\ cli.pc = "getGithubUrlFromNpm"
    /\ \E ok \in Outcomes : Outcome(ok) /\
         LET url == cli.urls[cli.scanned]
             githubUrl == getGithubUrlFromNpm(url, ok, cli.registry)
         IN  ScanThenEvaluate(cli, cli.scanned + 1,
                              IF ~githubUrl.isNull /\ githubUrl.text # <<>>
                              THEN Append(cli.githubUrls, <<url, githubUrl.text>>)
                              ELSE cli.githubUrls)
    /\ UNCHANGED <<peer, upstream, quota, fs>>

\* await netScore.evaluate() resolves: the record is written to the standard
\* output and the next target is taken.
ProcessUrlsWrite ==
    /\ cli.pc = "evaluate"
    /\ netPc = "returned"
    /\ NextTarget([cli EXCEPT !.stdout = Append(@, toString), !.target = @ + 1])
    /\ UNCHANGED <<peer, envVars, fs>>

\* await netScore.evaluate() rejects: nothing catches it and processUrls()
\* rejects, with the targets left unprocessed.
ProcessUrlsReject ==
    /\ cli.pc = "evaluate"
    /\ netPc = "threw"
    /\ cli' = [cli EXCEPT !.pc = "rejected", !.exitCode = 1]
    /\ UNCHANGED <<peer, envVars, fs, taskVars, busVars, corrVars, maintVars, rampVars,
                   licVars, netVars>>

\* The lines of a URL file.
RepoLine == <<"h", "t", "t", "p", "s", ":", "/", "/", "g", "i", "t", "h", "u", "b", ".", "c", "o", "m", "/", "o", "/", "r">>

OtherRepoLine == <<"h", "t", "t", "p", "s", ":", "/", "/", "g", "i", "t", "h", "u", "b", ".", "c", "o", "m", "/", "p", "/", "q">>

NpmLine == <<"h", "t", "t", "p", "s", ":", "/", "/", "w", "w", "w", ".", "n", "p", "m", "j", "s", ".", "c", "o", "m", "/", "p", "a", "c", "k", "a", "g", "e", "/", "x">>

BlankLine == <<>>

MalformedLine == <<"h", "t", "t", "p", "s", ":", "/", "/", "g", "i", "t", "h", "u", "b", ".", "c", "o", "m", "/">>

ForeignLine == <<"h", "t", "t", "p", "s", ":", "/", "/", "g", "i", "t", "l", "a", "b", ".", "c", "o", "m", "/", "o", "/", "r">>

SampleFiles ==
    {<<RepoLine, BlankLine, OtherRepoLine>>,
     <<NpmLine, ForeignLine, BlankLine>>,
     <<MalformedLine, RepoLine>>}

InitProcessUrls ==
    /\ upstream = RepoPartial
    /\ quota = MaxQuota
    /\ faults = 0
    /\ peer = NoPeer
    /\ \E file \in SampleFiles : \E answer \in RegistryAnswers :
          cli = [NotStarted EXCEPT !.urls = file, !.registry = answer]
    /\ Constructed

NextProcessUrls ==
    \/ ProcessUrlsCall
    \/ ProcessUrlsRateLimit
    \/ ProcessUrlsNpm
    \/ BusFactorRateLimit
    \/ BusFactorListCommits
    \/ CorrectnessRateLimit
    \/ CorrectnessListForRepo
    \/ MaintainabilityRateLimit
    \/ MaintainabilityListForRepo
    \/ RampUpClone
    \/ RampUpProcess
    \/ LicenseClone
    \/ LicenseProcess
    \/ NetScoreJoin
    \/ NetScoreReject
    \/ ProcessUrlsWrite
    \/ ProcessUrlsReject

SpecProcessUrls == InitProcessUrls /\ [][NextProcessUrls]_vars

(***************************************************************************)
(* Properties of NetScore.evaluate, under Spec.                            *)
(***************************************************************************)
ApiScorers == {"busFactor", "correctness", "maintainability"}

SomeScoreIsSentinel == \E s \in Scorers : ret[s] = Sentinel

C2_SentinelPropagates ==
    (netPc = "returned" /\ SomeScoreIsSentinel) => netRet = Sentinel

\* C2: the net score of a completed evaluation is never -1; it is 0 whenever
\* one of the five results is -1.
C2_SentinelBecomesZero ==
    netPc = "returned" =>
        /\ netRet # Sentinel
        /\ netScore # Sentinel
        /\ SomeScoreIsSentinel => netRet = Num(0)

\* A completed evaluation in which the bus factor is -1 and the net score 0.
C2_Witness ==
    /\ netPc = "returned"
    /\ ret["busFactor"] = Sentinel
    /\ netRet = Num(0)

C4_AllOrNothingJoin ==
    netPc \in {"returned", "threw"}
        => \A s \in Scorers : pc[s] \in {"returned", "threw"}

\* C5: no exception escapes the evaluate() of any of the five scorers.
C5_NoExceptionEscapes == \A s \in Scorers : pc[s] # "threw"

(***************************************************************************)
(* Properties of BusFactor, under SpecBusFactor.                           *)
(***************************************************************************)
\* evaluate() went past the quota check and returned what it calculated from
\* the commits it counted.
BusFactorCalculated == pc["busFactor"] = "returned" /\ remaining["busFactor"] > 0

RECURSIVE SumOver(_, _)
SumOver(commitData, S) ==
    IF S = {} THEN 0
    ELSE LET j == CHOOSE j \in S : TRUE
         IN  commitData[j].count + SumOver(commitData, S \ {j})

\* The most commits any j contributors have between them.
TopSum(commitData, j) ==
    LET sums == {SumOver(commitData, S) :
                    S \in {S \in SUBSET (1..Len(commitData)) : Cardinality(S) = j}}
    IN  CHOOSE m \in sums : \A other \in sums : other <= m

\* The contributors whose commits cover at least 85% of all commits, for each
\* number of them that does.
CoveringCounts(commitData) ==
    {j \in 0..Len(commitData) :
        TopSum(commitData, j) * 100 >= 85 * SumOver(commitData, 1..Len(commitData))}

\* C6: a bus factor calculated from a histogram of T > 0 commits lies in
\* [0,1], and one calculated from a histogram of no commits is exactly -1.
C6_UnitIntervalOrSentinel ==
    BusFactorCalculated =>
        IF SumOver(commitCounts, 1..Len(commitCounts)) > 0
        THEN InUnitInterval(ret["busFactor"])
        ELSE ret["busFactor"] = Sentinel

\* C7: for a histogram of T > 0 commits over n contributors the loop ends
\* without reading past the last contributor and the bus factor returned and
\* stored is min(2k/n, 1), k being the least number of contributors, largest
\* first, whose commits are at least 85% of T; and 1 <= k <= n.
C7_BusFactorFormula ==
    LET n == Len(commitCounts)
        T == SumOver(commitCounts, 1..n)
        covering == CoveringCounts(commitCounts)
        k == CHOOSE j \in covering : \A other \in covering : j <= other
    IN  /\ T > 0 => calculateBusFactor(commitCounts) # TypeError
        /\ (BusFactorCalculated /\ T > 0) =>
              /\ 1 <= k /\ k <= n
              /\ ret["busFactor"] = MathMin(Div(2 * k, n), Num(1))
              /\ busFactor = ret["busFactor"]

\* alice 85, bob 15: the bus factor returned is 1.
C7_Witness ==
    /\ BusFactorCalculated
    /\ commitCounts = <<[author |-> "alice", count |-> 85], [author |-> "bob", count |-> 15]>>
    /\ ret["busFactor"] = Num(1)

(***************************************************************************)
(* Properties of Correctness, under SpecCorrectness.                       *)
(***************************************************************************)
OpenOnes(list) == {i \in 1..Len(list) : list[i].state = "open"}

ClosedOnes(list) == {i \in 1..Len(list) : list[i].state = "closed"}

RECURSIVE HoursToClose(_, _)
HoursToClose(list, S) ==
    IF S = {} THEN 0
    ELSE LET i == CHOOSE i \in S : TRUE
         IN  (list[i].closed_at - list[i].created_at) + HoursToClose(list, S \ {i})

\* C9: the maintainability computed from a sampled list of issues is
\* 1 - avg/14, avg being the mean time to close in days over the closed issues
\* only and 0 when none is closed; it is 0 when avg > 14, 1 when avg = 0, and
\* lies in [0,1].
C9_MaintainabilityFormula ==
    (pc["maintainability"] = "returned" /\ issues.fetched) =>
        LET closed == ClosedOnes(issues.list)
            count == Cardinality(closed)
            hours == HoursToClose(issues.list, closed)
            fortnight == 14 * 24 * count
            score == ret["maintainability"]
        IN  /\ maintainability = score
            /\ InUnitInterval(score)
            /\ (count = 0 \/ hours = 0) => score = Num(1)
            /\ hours > fortnight => score = Num(0)
            /\ (count > 0 /\ hours <= fortnight)
                  => score.n * fortnight = (fortnight - hours) * score.d

\* An open issue and one closed after 7 days: the open one does not count,
\* and the score is 1/2.
C9_Witness ==
    /\ pc["maintainability"] = "returned"
    /\ issues.fetched
    /\ Len(issues.list) = 2
    /\ Cardinality(ClosedOnes(issues.list)) = 1
    /\ HoursToClose(issues.list, ClosedOnes(issues.list)) = 168
    /\ ret["maintainability"] = Div(1, 2)

(***************************************************************************)
(* Properties of RampUp, under SpecRampUp.                                 *)
(***************************************************************************)
\* Every directory of the checkout can be listed.
Walkable(tree) == \A i \in 1..Len(tree) : tree[i].isDirectory => tree[i].readable

\* Some entry of the tree has the fragment of the item in its lower-cased
\* name and is of the kind the item requires.
ItemMatched(tree, key) ==
    \E i \in 1..Len(tree) :
        /\ includes(toLowerCase(tree[i].name), MetricName(key))
        /\ key \in {"readme", "makefile"} => ~tree[i].isDirectory

\* C10: after a successful clone and walk the ramp-up score returned and
\* stored is the number of the five checklist items matched, over five.
C10_RampUpScore ==
    (pc["rampUp"] = "returned" /\ faults = 0 /\ Walkable(upstream.tree)) =>
        LET matched == {key \in {"example", "test", "readme", "doc", "makefile"} :
                           ItemMatched(upstream.tree, key)}
            score == ret["rampUp"]
        IN  /\ rampUp = score
            /\ score.d # 0
            /\ score.n * 5 = Cardinality(matched) * score.d

\* README.md, test/ and Makefile, nothing else: the score is 3/5.
C10_Witness ==
    /\ pc["rampUp"] = "returned"
    /\ faults = 0
    /\ upstream.tree = <<In(ReadmeMd, CloneRoot), In(TestDir, CloneRoot),
                          In(MakefileFile, CloneRoot)>>
    /\ ret["rampUp"] = Div(3, 5)

(***************************************************************************)
(* Properties of the checkouts, under SpecCheckouts.                       *)
(***************************************************************************)
CheckoutScorers == {"rampUp", "license"}

\* C11: at the step at which a RampUp.evaluate() or License.evaluate()
\* returns, on the success path and on every failure path, the clone
\* directory of that evaluation does not exist.
C11_ScratchRemoved ==
    [][/\ \A s \in CheckoutScorers :
             (pc[s] # "returned" /\ pc'[s] = "returned") => ~fs'[CloneDir(s)].exists
       /\ (peer.pc # "returned" /\ peer'.pc = "returned")
             => ~fs'[CloneDir(peer.class)].exists]_vars

\* RampUp returned -1 from a walk that failed, License returned 1, the second
\* object has returned as well, and neither directory exists.
C11_Witness ==
    /\ pc["rampUp"] = "returned" /\ ret["rampUp"] = Sentinel
    /\ pc["license"] = "returned" /\ ret["license"] = Num(1)
    /\ peer.pc = "returned"
    /\ faults = 0
    /\ \A dir \in ScratchDirs : ~fs[dir].exists

\* C12: two evaluations in flight together use different clone directories,
\* and while an evaluation has its checkout and is yet to read it, no step of
\* another evaluation changes or removes that checkout.
C12_ExclusiveScratch ==
    [][/\ \A s \in CheckoutScorers :
             /\ (pc[s] \in {"clone", "cloned", "cloneFailed"}
                     /\ peer.pc \in {"clone", "cloned", "cloneFailed"})
                   => CloneDir(s) # CloneDir(peer.class)
             /\ (pc[s] = "cloned" /\ pc'[s] = "cloned")
                   => fs'[CloneDir(s)] = fs[CloneDir(s)]
       /\ (peer.pc = "cloned" /\ peer'.pc = "cloned")
             => fs'[CloneDir(peer.class)] = fs[CloneDir(peer.class)]]_vars

(***************************************************************************)
(* Properties of License, under SpecLicense.                               *)
(***************************************************************************)
\* The first top-level entry with a README name, and the first with a
\* LICENSE name, if any: the ones evaluate() reads.
FirstOf(S) == {i \in S : \A j \in S : i <= j}

ReadmeEntries(tree) == FirstOf({i \in 1..Len(tree) : IsReadmeName(tree[i].name)})

LicenseFileEntries(tree) == FirstOf({i \in 1..Len(tree) : IsLicenseName(tree[i].name)})

\* Reading the README or the LICENSE fails: the entry is a directory.
FileOperationFails(tree) ==
    \E i \in ReadmeEntries(tree) \cup LicenseFileEntries(tree) : tree[i].isDirectory

\* No README holds a "##" heading and no LICENSE file holds any text.
NoLicenseText(tree) ==
    /\ \A i \in ReadmeEntries(tree) : ~includes(tree[i].content, <<"#", "#">>)
    /\ \A i \in LicenseFileEntries(tree) : tree[i].content = <<>>

\* C13: License.evaluate() returns and stores -1, 0 or 1: -1 exactly when the
\* clone or a file operation failed, and 0 when the checkout succeeded and
\* holds no license text.
C13_LicenseOutcomes ==
    pc["license"] = "returned" =>
        LET failed == faults > 0 \/ FileOperationFails(upstream.tree)
        IN  /\ license = ret["license"]
            /\ ret["license"] \in {Sentinel, Num(0), Num(1)}
            /\ ret["license"] = Sentinel <=> failed
            /\ (~failed /\ NoLicenseText(upstream.tree)) => ret["license"] = Num(0)

\* A checkout whose only entry is an empty LICENSE file: the score is 0.
C13_Witness ==
    /\ pc["license"] = "returned"
    /\ faults = 0
    /\ Len(upstream.tree) = 1
    /\ LicenseFileEntries(upstream.tree) = {1}
    /\ upstream.tree[1].content = <<>>
    /\ ~upstream.tree[1].isDirectory
    /\ ret["license"] = Num(0)

\* An allow-listed identifier occurs in the text as a literal substring, case
\* ignored.
LiteralIdentifierIn(text) ==
    \E k \in 1..Len(compatibleLicenses) :
        includes(toLowerCase(text), toLowerCase(compatibleLicenses[k]))

\* C14: when license text was extracted, the score is 1 if an allow-listed
\* identifier occurs in it as a case-insensitive literal substring, and 0
\* otherwise.
C14_LiteralSubstring ==
    LET e == extractLicenseInfo(upstream.tree)
    IN  (pc["license"] = "returned" /\ faults = 0 /\ ~e.threw /\ e.info.text # <<>>) =>
            ret["license"] = IF LiteralIdentifierIn(e.info.text) THEN Num(1) ELSE Num(0)

\* The positions of the README where a "##" heading reading License or Legal
\* begins.
HeadedLicenseOrLegal(content) ==
    {p \in 1..Len(content) :
        /\ MatchesAt(<<"#", "#">>, content, p - 1)
        /\ \E w \in 0..Len(content) :
              /\ \A i \in 1..w : p + 1 + i <= Len(content) /\ content[p + 1 + i] \in WhiteSpace
              /\ \/ MatchesAt(<<"L", "i", "c", "e", "n", "s", "e">>, content, p + 1 + w)
                 \/ MatchesAt(<<"L", "e", "g", "a", "l">>, content, p + 1 + w)}

\* C15: with no LICENSE file, a top-level README that has a section headed
\* License or Legal contributes the text from that heading on, and none of the
\* text before it, to the allow-list match; a section naming MIT scores 1.
C15_ReadmeSection ==
    LET readmes == ReadmeEntries(upstream.tree)
    IN  (/\ pc["license"] = "returned" /\ faults = 0
         /\ LicenseFileEntries(upstream.tree) = {}
         /\ ~FileOperationFails(upstream.tree)) =>
            \A i \in readmes : \A p \in FirstOf(HeadedLicenseOrLegal(upstream.tree[i].content)) :
                LET content == upstream.tree[i].content
                    section == SubSeq(content, p, Len(content))
                IN  /\ extractLicenseInfo(upstream.tree).info = Text(section)
                    /\ ret["license"] = checkLicenseCompatibility(section)
                    /\ includes(section, <<"M", "I", "T">>) => ret["license"] = Num(1)

WeightedScores == <<ret["busFactor"], ret["correctness"], ret["rampUp"], ret["maintainability"]>>

\* C16: when none of the five scores is -1 and the license score is 1, the
\* net score is (19.84 busFactor + 7.47 correctness + 30.69 rampUp +
\* 42.0 maintainability) / 100; the weights sum to 100, so the net score lies
\* in [0,1] when the four scores do, and is 1 exactly when all four are 1.
C16_WeightedMean ==
    (netPc = "returned" /\ ~SomeScoreIsSentinel /\ ret["license"] = Num(1)) =>
        LET hundredfold == Plus(Plus(Times(ret["busFactor"], 1984),
                                     Times(ret["correctness"], 747)),
                                Plus(Times(ret["rampUp"], 3069),
                                     Times(ret["maintainability"], 4200)))
            allInRange == \A i \in 1..4 : InUnitInterval(WeightedScores[i])
        IN  /\ 1984 + 747 + 3069 + 4200 = 100 * 100
            /\ netRet = Over(hundredfold, 100 * 100)
            /\ netScore = netRet
            /\ allInRange =>
                  /\ InUnitInterval(netRet)
                  /\ netRet = Num(1) <=> \A i \in 1..4 : WeightedScores[i] = Num(1)

\* A completed evaluation with a compatible license whose four weighted
\* scores differ from each other and lie strictly between 0 and 1 or at 1.
C16_Witness ==
    /\ netPc = "returned"
    /\ ~SomeScoreIsSentinel
    /\ ret["license"] = Num(1)
    /\ ret["rampUp"] = Div(3, 5)
    /\ ret["busFactor"] # ret["correctness"]
    /\ netRet # Num(0)
    /\ netRet # Num(1)

\* C17: the net score evaluate() returns and stores lies in [0,1] whatever the
\* five scorers produced.
C17_Clamped ==
    netPc = "returned" => (InUnitInterval(netRet) /\ InUnitInterval(netScore))

RecordKeys ==
    <<"URL", "NetScore", "NetScore_Latency", "RampUp", "RampUp_Latency",
      "Correctness", "Correctness_Latency", "BusFactor", "BusFactor_Latency",
      "ResponsiveMaintainer", "ResponsiveMaintainer_Latency", "License",
      "License_Latency">>

IsDigit(c) == \E i \in 1..Len(DecimalDigits) : DecimalDigits[i] = c

\* The text is a finite number written with exactly three decimals.
ThreeDecimals(text) ==
    LET body == IF text # <<>> /\ Head(text) = "-" THEN Tail(text) ELSE text
        n == Len(body)
    IN  /\ n >= 5
        /\ body[n - 3] = "."
        /\ \A i \in 1..n : i # n - 3 => IsDigit(body[i])

ScoreKey(s) ==
    CASE s = "busFactor"       -> "BusFactor"
      [] s = "correctness"     -> "Correctness"
      [] s = "maintainability" -> "ResponsiveMaintainer"
      [] s = "rampUp"          -> "RampUp"
      [] s = "license"         -> "License"

\* C18: after every evaluation that returned, toString() holds exactly the 13
\* keys in their order, every value after URL is a finite number with three
\* decimals on one line, and the field of a scorer that returned -1 reads
\* -1.000.
C18_RecordFormat ==
    netPc = "returned" =>
        /\ Len(toString) = Len(RecordKeys)
        /\ \A i \in 1..Len(RecordKeys) : toString[i][1] = RecordKeys[i]
        /\ \A i \in 2..Len(toString) : ThreeDecimals(toString[i][2])
        /\ \A s \in Scorers : ret[s] = Sentinel =>
              \A i \in 1..Len(toString) :
                  toString[i][1] = ScoreKey(s) => toString[i][2] = <<"-", "1", ".", "0", "0", "0">>

\* The histogram of the commit pages getCommitData requests: up to a page of
\* fewer than PerPage commits, or the page cap.
RECURSIVE HistogramFrom(_, _, _)
HistogramFrom(commits, p, counts) ==
    LET commitPage == ListCommitsPage(commits, p)
        counted == CountCommits(counts, commitPage)
    IN  IF PageLength(commitPage) < PerPage \/ ~(p + 1 < PageCap) THEN counted
        ELSE HistogramFrom(commits, p + 1, counted)

\* What each scorer makes of the upstream data when nothing fails.
ScoreOfUpstream(s) ==
    CASE s = "busFactor" -> calculateBusFactor(HistogramFrom(upstream.commits, 1, <<>>))
      [] s = "correctness" ->
            LET c == CountIssues(ListBugIssues(upstream.bugIssues))
            IN  CorrectnessOf(c.openBugIssues, c.totalOpenIssues)
      [] s = "maintainability" -> MaintainabilityOf(ListIssues(upstream.issues))
      [] s = "rampUp" ->
            LET walk == processRepository(upstream.tree, CloneRoot, InitialMetrics)
            IN  IF walk.threw THEN Sentinel ELSE calculateRampUpScore(walk.found)
      [] s = "license" -> LicenseOf(upstream.tree).license

\* The quota status and the failure outcomes scorer s met, as the state
\* records them: the quota read as exhausted, or the one request not answered.
ScorerFailed(s) ==
    CASE s = "busFactor"       -> remaining[s] = 0
      [] s = "correctness"     -> remaining[s] = 0 \/ ~data.fetched
      [] s = "maintainability" -> remaining[s] = 0 \/ ~issues.fetched
      [] s \in CheckoutScorers -> faults > 0 /\ ret[s] = Sentinel

FieldOf(s) ==
    CASE s = "busFactor"       -> busFactor
      [] s = "correctness"     -> correctness
      [] s = "maintainability" -> maintainability
      [] s = "rampUp"          -> rampUp
      [] s = "license"         -> license

C20_QuotaGate ==
    /\ cli.started # <<>> => cli.apiRemaining # <<>>
    /\ cli.apiRemaining # <<>> =>
          IF cli.apiRemaining[1] < 300
          THEN cli.pc = "exited" /\ cli.exitCode > 0 /\ cli.started = <<>>
          ELSE /\ cli.pc # "exited"
               /\ cli.started # <<>>
               /\ cli.started = SubSeq(TestGroups, 1, Len(cli.started))
               /\ cli.pc = "done" => cli.started = TestGroups /\ cli.exitCode = 0

\* The test command given with 299 calls left: the process has exited.
C20_Witness ==
    /\ cli.pc = "exited"
    /\ cli.apiRemaining = <<299>>
    /\ cli.exitCode = 1
    /\ cli.started = <<>>

(***************************************************************************)
(* Properties of processUrls, under SpecProcessUrls.                       *)
(***************************************************************************)
\* processUrls() has ended: it returned, or it rejected and the process ends.
ProcessUrlsEnded == cli.pc \in {"done", "rejected"}

\* The URL fields of the record lines written so far.
WrittenUrls == [i \in 1..Len(cli.stdout) |-> cli.stdout[i][1][2]]

IsRepoUrl(line) == ~getRepoData(line).threw

IsNpmLine(line) == ~includes(line, GithubHost) /\ includes(line, NpmHost)

\* The registry names a repository of the hosting service for the line.
ResolvesToRepo(line) ==
    /\ IsNpmLine(line)
    /\ ~getGithubUrlFromNpm(line, TRUE, cli.registry).isNull
    /\ IsRepoUrl(getGithubUrlFromNpm(line, TRUE, cli.registry).text)

\* C21: when processUrls() has ended, the record lines written are one for
\* each input line that is a repository URL of the hosting service or a
\* registry URL resolved to one, in the order of the input lines; a registry
\* URL whose lookup failed has no line.
C21_OneRecordPerUrl ==
    ProcessUrlsEnded =>
        LET Direct(line) == IsRepoUrl(line)
            Resolved(line) == IsRepoUrl(line) \/ ResolvesToRepo(line)
        IN  \/ WrittenUrls = SelectSeq(cli.urls, Resolved)
            \/ faults > 0 /\ WrittenUrls = SelectSeq(cli.urls, Direct)

\* C28: when processUrls() has ended, every target of the list that is a
\* repository URL has its record written, whatever happened to the targets
\* before it.
C28_LaterTargetsWritten ==
    ProcessUrlsEnded =>
        \A i \in 1..Len(cli.githubUrls) :
            IsRepoUrl(cli.githubUrls[i][2]) =>
                \E j \in 1..Len(cli.stdout) : cli.stdout[j][1][2] = cli.githubUrls[i][1]

(***************************************************************************)
(* Properties of the latencies and of the net score, under Spec.           *)
(***************************************************************************)
\* evaluate() of the object has returned.
Evaluated(s) == IF s = "netScore" THEN netPc = "returned" ELSE pc[s] = "returned"

NonNegative(x) == IsFinite(x) /\ x.n >= 0

\* C22: the latency of every evaluation that returned is non-negative and is
\* the time between its start and its end in milliseconds.
C22_LatencyInMilliseconds ==
    \A s \in Scorers \cup {"netScore"} :
        Evaluated(s) =>
            /\ NonNegative(responseTime[s])
            /\ responseTime[s] = Num(ElapsedMs(s))

(***************************************************************************)
(* Properties of the walk, under SpecRampUp.                               *)
(***************************************************************************)
\* How many times the walk listed directory d.
TimesVisited(d) == Cardinality({i \in 1..Len(visited) : visited[i] = d})

\* The clone directory and the directories of the checkout.
DirectoriesOf(tree) == {CloneRoot} \cup {i \in 1..Len(tree) : tree[i].isDirectory}

\* C23: a walk lists no directory twice, and one that runs to its end lists
\* the clone directory and every subdirectory exactly once; an item matched
\* by some entry stays found whatever entries are checked after it.
C23_WalkOnce ==
    (pc["rampUp"] = "returned" /\ faults = 0) =>
        /\ \A d \in DirectoriesOf(upstream.tree) : TimesVisited(d) <= 1
        /\ \A i \in 1..Len(visited) : visited[i] \in DirectoriesOf(upstream.tree)
        /\ Walkable(upstream.tree) =>
              /\ \A d \in DirectoriesOf(upstream.tree) : TimesVisited(d) = 1
              /\ \A key \in MetricKeySet : metrics[key] <=> ItemMatched(upstream.tree, key)

\* A walk through two nested directories in which the entry checked last
\* matches no item and an item matched before it is found.
C23_Witness ==
    /\ pc["rampUp"] = "returned"
    /\ faults = 0
    /\ Len(visited) = 3
    /\ Len(upstream.tree) = 3
    /\ upstream.tree[3].parent = 2
    /\ upstream.tree[2].parent = 1
    /\ \E key \in MetricKeySet : metrics[key]
    /\ \A key \in MetricKeySet :
          ~includes(toLowerCase(upstream.tree[1].name), MetricName(key))

(***************************************************************************)
(* Properties of getCommitData, under SpecCommitPages.                     *)
(***************************************************************************)
\* The commit pages requested and answered so far.
PagesFetched == PagingQuota - quota

\* The commits of author on the first k pages of the history.
RECURSIVE CommitsBy(_, _, _)
CommitsBy(author, commits, k) ==
    IF k = 0 THEN 0
    ELSE LET onPage == IF k <= Len(commits) THEN commits[k] ELSE <<>>
         IN  CommitsBy(author, commits, k - 1)
             + SumOver([i \in 1..Len(onPage) |->
                           [count |-> IF onPage[i].author = author THEN onPage[i].n ELSE 0]],
                       1..Len(onPage))

CommitsOnPage(commits, k) == IF k <= Len(commits) THEN PageLength(commits[k]) ELSE 0

\* C24: getCommitData requests the pages 1, 2, ... in order, goes on only
\* after a page of 100 commits, stops after the first page of fewer than 100
\* and after 9 pages at the latest; each author's count is the number of the
\* commits with that login on the pages fetched, and commits without a login
\* are not counted.
C24_PagedFetch ==
    /\ PagesFetched <= 9
    /\ pc["busFactor"] = "listCommits" => page = PagesFetched + 1
    /\ \A k \in 1..(PagesFetched - 1) : CommitsOnPage(upstream.commits, k) = 100
    /\ BusFactorCalculated =>
          /\ PagesFetched >= 1
          /\ PagesFetched < 9 => CommitsOnPage(upstream.commits, PagesFetched) < 100
          /\ \A i \in 1..Len(commitCounts) :
                /\ commitCounts[i].author # NoLogin
                /\ commitCounts[i].count =
                      CommitsBy(commitCounts[i].author, upstream.commits, PagesFetched)
          /\ \A author \in Authors :
                CommitsBy(author, upstream.commits, PagesFetched) > 0 =>
                    \E i \in 1..Len(commitCounts) : commitCounts[i].author = author

\* A history of eleven full pages: the bus factor is calculated from the
\* first nine, 540 commits of bob, the rest without a login.
C24_Witness ==
    /\ BusFactorCalculated
    /\ Len(upstream.commits) > 9
    /\ PagesFetched = 9
    /\ commitCounts = <<[author |-> "bob", count |-> 540]>>

\* C25: whenever the weighted net score evaluate() computed is not a value
\* within [0,1], the out-of-bounds error has been logged, and the value is
\* returned and stored as computed.
C25_OutOfBoundsLogged ==
    (/\ netPc = "returned"
     /\ ~AnyMetricFailed(busFactor, correctness, license, rampUp, maintainability)) =>
        /\ netRet = WeightedSum(<<busFactor, correctness, rampUp, maintainability>>, 1, Num(0))
        /\ netScore = netRet
        /\ ~InUnitInterval(netRet) => netLogged

\* Scorer s of the API issues its data request at this step.
IssuesFetch(s) ==
    /\ pc[s] \in {"listCommits", "listForRepo"}
    /\ \/ pc'[s] # pc[s]
       \/ s = "busFactor" /\ page' # page

\* C27: a scorer that checks the quota issues its data request only while
\* the remaining quota is not 0, however the other scorers of the evaluation
\* have used the quota since it checked.
C27_FetchOnlyWithQuota ==
    [][\A s \in ApiScorers : IssuesFetch(s) => quota > 0]_vars

\* C29: when NetScore.evaluate() has returned, on the weighted path or on
\* the path that forces the score to 0, the response time of the net score
\* is the one computed from the start and end times of that call.
C29_NetResponseTimeSet ==
    netPc = "returned" =>
        responseTime["netScore"] = Over(Num(ElapsedMs("netScore")), 1000000)

(***************************************************************************)
(* A scorer object evaluated more than once: evaluate() is a public method *)
(* and nothing in it resets the object.                                    *)
(***************************************************************************)
\* evaluate() of metric s is called again on the same object, once its
\* earlier call has settled: the fields keep what that call left in them.
EvaluateAgain(s) ==
    /\ pc[s] \in {"returned", "threw"}
    /\ pc' = [pc EXCEPT ![s] = FirstAwait(s)]
    /\ ret' = [ret EXCEPT ![s] = Pending]
    /\ UNCHANGED <<cli, peer, envVars, fs, responseTime, remaining, busVars, corrVars, maintVars,
                   rampVars, licVars, netVars>>

ApiEvaluateAgain == \E s \in ApiScorers : EvaluateAgain(s)

InitReuse ==
    /\ upstream \in SampleRepos
    /\ quota \in 0..MaxQuota
    /\ faults = 0
    /\ peer = NoPeer
    /\ cli = NotStarted
    /\ Constructed

NextReuse ==
    \/ BusFactorEvaluate
    \/ BusFactorRateLimit
    \/ BusFactorListCommits
    \/ CorrectnessEvaluate
    \/ CorrectnessRateLimit
    \/ CorrectnessListForRepo
    \/ MaintainabilityEvaluate
    \/ MaintainabilityRateLimit
    \/ MaintainabilityListForRepo
    \/ ApiEvaluateAgain

SpecReuse == InitReuse /\ [][NextReuse]_vars

\* C26: whenever evaluate() of a scorer has returned, after any number of
\* calls on the same object, the score field the aggregator reads equals the
\* value that call returned, the -1 of an exhausted quota included.
C26_FieldIsLastReturn ==
    \A s \in ApiScorers : pc[s] = "returned" => FieldOf(s) = ret[s]

RampUpEvaluateAgain == EvaluateAgain("rampUp")

\* A checkout whose walk finds the readme and then fails on a directory
\* that cannot be listed.
ReadmeThenPrivate == <<In(ReadmeMd, CloneRoot), In(PrivateDir, CloneRoot)>>

ReuseTrees == {r.tree : r \in SampleRepos} \cup {ReadmeThenPrivate}

\* The repository changes on the hosting service between two clones.
UpstreamChanges ==
    /\ \E t \in ReuseTrees \ {upstream.tree} : upstream' = [upstream EXCEPT !.tree = t]
    /\ UNCHANGED <<cli, peer, quota, faults, fs, taskVars, busVars, corrVars, maintVars, rampVars,
                   licVars, netVars>>

InitRampUpReuse ==
    /\ upstream \in {[EmptyRepo EXCEPT !.tree = t] : t \in ReuseTrees}
    /\ quota = MaxQuota
    /\ faults = 0
    /\ peer = NoPeer
    /\ cli = NotStarted
    /\ Constructed

NextRampUpReuse ==
    \/ RampUpEvaluate
    \/ RampUpClone
    \/ RampUpProcess
    \/ RampUpEvaluateAgain
    \/ UpstreamChanges

SpecRampUpReuse == InitRampUpReuse /\ [][NextRampUpReuse]_vars

\* C30: the score an evaluate() of RampUp computes after its walk is the
\* score of the checkout it walked, counted on a checklist whose five items
\* all start as not found: what an earlier evaluate() of the same object
\* found, or a walk that failed, adds nothing.
C30_ChecklistStartsEmpty ==
    [][(pc["rampUp"] = "cloned" /\ pc'["rampUp"] = "returned" /\ rampUp' # Sentinel) =>
          rampUp' = calculateRampUpScore(Walk(fs[CloneDir("rampUp")], InitialMetrics).found)]_vars
====
